---- MODULE Spec2Model ----
(***************************************************************************)
(* Environment (process) management of the kernel: kern/env.c.             *)
(* The environment table and its free list, envid2env, env_alloc,          *)
(* env_free, env_destroy, env_run / env_pop_tf, csys_exit, csys_yield,     *)
(* and load_icode, modelled as a state machine.                             *)
(***************************************************************************)
EXTENDS Integers, Sequences, FiniteSets, TLC

(***************************************************************************)
(* Bounds of the model.                                                    *)
(***************************************************************************)
\* log2 of the capacity of the environment table (NENV == 1 << LOGNENV)
LOGNENV == 1
\* how many environments are allocated in one behaviour
MaxAllocs == 2
\* how many times env_run is entered in one behaviour
MaxRuns == 3

(***************************************************************************)
(* Program constants.                                                      *)
(***************************************************************************)
ENVGENSHIFT == 12
PAGE_SIZE == 4096
STACK_AREA_TOP == 33554432
NENV == 2 ^ LOGNENV
\* NENV of the kernel as it is built ("NENV now is 2^10 = 1024")
KernelNENV == 1024

NULL == -1
Slots == 0 .. (NENV - 1)

INT32_MAX == 2147483647

\* x + y in int32_t arithmetic, for x, y >= 0: past INT32_MAX the sum wraps
\* to x + y - 2^32
AddInt32(x, y) ==
    IF x > INT32_MAX - y
    THEN (x - INT32_MAX - 1) + (y - INT32_MAX - 1)
    ELSE x + y

(***************************************************************************)
(* uint64_t / uintptr_t / size_t values: four 16-bit limbs, the most       *)
(* significant first, with arithmetic modulo 2^64.                         *)
(***************************************************************************)
Limb == 2 ^ 16

\* the uint64_t with the value n, for 0 <= n < 2^31
U64(n) == <<0, 0, n \div Limb, n % Limb>>

U64Add(x, y) ==
    LET s4 == x[4] + y[4]
        s3 == x[3] + y[3] + (s4 \div Limb)
        s2 == x[2] + y[2] + (s3 \div Limb)
        s1 == x[1] + y[1] + (s2 \div Limb)
    IN <<s1 % Limb, s2 % Limb, s3 % Limb, s4 % Limb>>

U64Neg(x) ==
    U64Add(<<Limb - 1 - x[1], Limb - 1 - x[2], Limb - 1 - x[3], Limb - 1 - x[4]>>,
           U64(1))

U64Sub(x, y) == U64Add(x, U64Neg(y))

U64Lt(x, y) ==
    \/ x[1] < y[1]
    \/ x[1] = y[1] /\ x[2] < y[2]
    \/ x[1] = y[1] /\ x[2] = y[2] /\ x[3] < y[3]
    \/ x[1] = y[1] /\ x[2] = y[2] /\ x[3] = y[3] /\ x[4] < y[4]

U64Gt(x, y) == U64Lt(y, x)
U64Ge(x, y) == ~U64Lt(x, y)
U64Le(x, y) == ~U64Lt(y, x)

\* byte i (0 the least significant) of the value
ByteOf(v, i) ==
    LET limb == v[4 - (i \div 2)]
    IN IF i % 2 = 0 THEN limb % 256 ELSE limb \div 256

\* x & ~(NENV - 1) on two's complement: the low LOGNENV bits are cleared
ClearIndexBits(x) == x - (x % NENV)
\* ENVX(envid) == envid & (NENV - 1)
ENVX(envid) == envid % NENV

VARIABLES
    envs,           \* struct Env envs[NENV]
    env_free_list,  \* head of the free list: a slot or NULL
    curenv,         \* the current environment: a slot or NULL
    mem,            \* the flat memory programs are loaded into, byte by address
    cpu,            \* the registers after the last env_pop_tf, or NoCpu
    fatal,          \* "none", "panic" (panic / failed assert) or "halt" (sched_halt)
    last,           \* the last operation, its arguments and what it returned
    retired,        \* the identities whose slot env_alloc has handed out again
    allocs,         \* how many environments env_alloc has handed out
    image,          \* the buffer (binary, size) handed to load_icode
    debuginfo       \* the names find_function knows, with their addresses

vars == <<envs, env_free_list, curenv, mem, cpu, fatal, last, retired, allocs,
          image, debuginfo>>

(***************************************************************************)
(* The saved register state of an environment.                             *)
(***************************************************************************)
ZeroTf == [tf_regs |-> 0, tf_es |-> "0", tf_ds |-> "0", tf_rip |-> U64(0),
           tf_cs |-> "0", tf_rflags |-> U64(0), tf_rsp |-> U64(0), tf_ss |-> "0"]

NoCpu == [tf_regs |-> 0, tf_es |-> "none", tf_ds |-> "none", tf_rip |-> U64(0),
          tf_cs |-> "none", tf_rflags |-> U64(0), tf_rsp |-> U64(0),
          tf_ss |-> "none"]

\* env->binary == NULL
NoBinary == "NULL"


\* the kernel state the functions of env.c work on
KState == [envs |-> envs, env_free_list |-> env_free_list, curenv |-> curenv,
           mem |-> mem, cpu |-> cpu, fatal |-> fatal]

Commit(k) ==
    /\ envs' = k.envs
    /\ env_free_list' = k.env_free_list
    /\ curenv' = k.curenv
    /\ mem' = k.mem
    /\ cpu' = k.cpu
    /\ fatal' = k.fatal

Panic(k) == [k EXCEPT !.fatal = "panic"]

(***************************************************************************)
(* Memory: a byte per cell that was written; every other byte is as it was *)
(* handed out.  A cell is named by its address read as a signed number:    *)
(* the addresses of the model lie within 2^31 of 0 or of 2^64.             *)
(***************************************************************************)
Cell(a) ==
    IF a[1] = 0 /\ a[2] = 0
    THEN a[3] * Limb + a[4]
    ELSE -(U64Neg(a)[3] * Limb + U64Neg(a)[4])

\* *(uintptr_t *) addr = v
StoreWord(m, addr, v) ==
    [c \in {Cell(U64Add(addr, U64(i))) : i \in 0 .. 7} |->
        ByteOf(v, c - Cell(addr))] @@ m

(***************************************************************************)
(* env_init                                                                *)
(***************************************************************************)
\* env_init that leaves every env_link NULL
env_init_unlinked ==
    [i \in Slots |->
        [env_id |-> 0, env_status |-> "FREE", env_parent_id |-> 0,
         env_runs |-> 0, env_tf |-> ZeroTf, env_link |-> NULL,
         binary |-> NoBinary]]

env_init ==
    [i \in Slots |->
        [env_id |-> 0,
         env_status |-> "FREE",
         env_parent_id |-> 0,
         env_runs |-> 0,
         env_tf |-> ZeroTf,
         env_link |-> IF i < NENV - 1 THEN i + 1 ELSE NULL,
         binary |-> NoBinary]]

(***************************************************************************)
(* envid2env: the return value and what is stored through env_store.       *)
(* With need_check_perm set and no current environment the code reads      *)
(* curenv->env_id through a null pointer: the value it compares with is    *)
(* whatever is there (nullid).                                             *)
(***************************************************************************)
\* envid2env that does not look at env_status
envid2env_nostatus(k, envid, need_check_perm, nullid) ==
    IF envid = 0
    THEN [ret |-> "0", env_store |-> k.curenv]
    ELSE LET env == ENVX(envid)
             curid == IF k.curenv = NULL THEN nullid ELSE k.envs[k.curenv].env_id
         IN IF k.envs[env].env_id # envid
            THEN [ret |-> "-E_BAD_ENV", env_store |-> NULL]
            ELSE IF need_check_perm /\ env # k.curenv
                    /\ k.envs[env].env_parent_id # curid
                 THEN [ret |-> "-E_BAD_ENV", env_store |-> NULL]
                 ELSE [ret |-> "0", env_store |-> env]

\* envid2env that looks envid 0 up in the table like any other
envid2env_nozero(k, envid, need_check_perm, nullid) ==
    LET env == ENVX(envid)
        curid == IF k.curenv = NULL THEN nullid ELSE k.envs[k.curenv].env_id
    IN IF k.envs[env].env_status = "FREE" \/ k.envs[env].env_id # envid
       THEN [ret |-> "-E_BAD_ENV", env_store |-> NULL]
       ELSE IF need_check_perm /\ env # k.curenv
               /\ k.envs[env].env_parent_id # curid
            THEN [ret |-> "-E_BAD_ENV", env_store |-> NULL]
            ELSE [ret |-> "0", env_store |-> env]

\* envid2env that lets only the current environment pass the permission check
envid2env_noparent(k, envid, need_check_perm, nullid) ==
    IF envid = 0
    THEN [ret |-> "0", env_store |-> k.curenv]
    ELSE LET env == ENVX(envid)
         IN IF k.envs[env].env_status = "FREE" \/ k.envs[env].env_id # envid
            THEN [ret |-> "-E_BAD_ENV", env_store |-> NULL]
            ELSE IF need_check_perm /\ env # k.curenv
                 THEN [ret |-> "-E_BAD_ENV", env_store |-> NULL]
                 ELSE [ret |-> "0", env_store |-> env]

envid2env(k, envid, need_check_perm, nullid) ==
    IF envid = 0
    THEN [ret |-> "0", env_store |-> k.curenv]
    ELSE LET env == ENVX(envid)
             curid == IF k.curenv = NULL THEN nullid ELSE k.envs[k.curenv].env_id
         IN IF k.envs[env].env_status = "FREE" \/ k.envs[env].env_id # envid
            THEN [ret |-> "-E_BAD_ENV", env_store |-> NULL]
            ELSE IF need_check_perm /\ env # k.curenv
                    /\ k.envs[env].env_parent_id # curid
                 THEN [ret |-> "-E_BAD_ENV", env_store |-> NULL]
                 ELSE [ret |-> "0", env_store |-> env]

(***************************************************************************)
(* env_alloc.  The sum env_id + (1 << ENVGENSHIFT) is an int addition:     *)
(* past INT32_MAX it overflows, and the build either wraps it or traps.    *)
(***************************************************************************)
GenerationOverflows(k) ==
    /\ k.env_free_list # NULL
    /\ k.envs[k.env_free_list].env_id > INT32_MAX - 2 ^ ENVGENSHIFT

\* a generation that never advances
Generation_stuck(env_id) == 2 ^ ENVGENSHIFT

\* a generation that is not kept positive
Generation_noreset(env_id) == ClearIndexBits(AddInt32(env_id, 2 ^ ENVGENSHIFT))

\* the generation of the next identity, reset to 0 when it is not positive
Generation_resetzero(env_id) ==
    LET generation == ClearIndexBits(AddInt32(env_id, 2 ^ ENVGENSHIFT))
    IN IF generation <= 0 THEN 0 ELSE generation

Generation(env_id) ==
    LET generation == ClearIndexBits(AddInt32(env_id, 2 ^ ENVGENSHIFT))
    IN IF generation <= 0 THEN 2 ^ ENVGENSHIFT ELSE generation

\* an identity without the slot index
NewEnvId_noindex(env_id, env) == Generation(env_id)

\* generation | (env - envs): bitwise or of a value whose index bits are clear
NewEnvId(env_id, env) == Generation(env_id) + env

\* the initial trap frame with stacks one page apart
InitialTf_onepage(env) ==
    [ZeroTf EXCEPT !.tf_ds = "GD_KD", !.tf_es = "GD_KD", !.tf_ss = "GD_KD",
                   !.tf_cs = "GD_KT",
                   !.tf_rsp = U64Sub(U64(STACK_AREA_TOP), U64(PAGE_SIZE * env))]

InitialTf(env) ==
    [ZeroTf EXCEPT !.tf_ds = "GD_KD", !.tf_es = "GD_KD", !.tf_ss = "GD_KD",
                   !.tf_cs = "GD_KT",
                   !.tf_rsp = U64Sub(U64(STACK_AREA_TOP), U64(2 * PAGE_SIZE * env))]

\* env_alloc that reports an empty free list as memory exhaustion
env_alloc_nomem(k, parent_id) ==
    LET env == k.env_free_list
    IN IF env = NULL
       THEN [ret |-> "-E_NO_MEM", newenv |-> NULL, k |-> k]
       ELSE [ret |-> "0", newenv |-> env,
             k |-> [k EXCEPT
                 !.envs[env] = [@ EXCEPT
                     !.env_id = NewEnvId(k.envs[env].env_id, env),
                     !.env_parent_id = parent_id,
                     !.env_status = "RUNNABLE",
                     !.env_runs = 0,
                     !.env_tf = InitialTf(env)],
                 !.env_free_list = k.envs[env].env_link]]

\* env_alloc that leaves the saved registers and the run counter of the
\* record as they are, but for the segment registers and the stack pointer
env_alloc_noclear(k, parent_id) ==
    LET env == k.env_free_list
    IN IF env = NULL
       THEN [ret |-> "-E_NO_FREE_ENV", newenv |-> NULL, k |-> k]
       ELSE [ret |-> "0", newenv |-> env,
             k |-> [k EXCEPT
                 !.envs[env] = [@ EXCEPT
                     !.env_id = NewEnvId(k.envs[env].env_id, env),
                     !.env_parent_id = parent_id,
                     !.env_status = "RUNNABLE",
                     !.env_tf = [@ EXCEPT
                         !.tf_ds = "GD_KD", !.tf_es = "GD_KD", !.tf_ss = "GD_KD",
                         !.tf_cs = "GD_KT", !.tf_rsp = InitialTf(env).tf_rsp]],
                 !.env_free_list = k.envs[env].env_link]]

env_alloc(k, parent_id) ==
    LET env == k.env_free_list
    IN IF env = NULL
       THEN [ret |-> "-E_NO_FREE_ENV", newenv |-> NULL, k |-> k]
       ELSE [ret |-> "0", newenv |-> env,
             k |-> [k EXCEPT
                 !.envs[env] = [@ EXCEPT
                     !.env_id = NewEnvId(k.envs[env].env_id, env),
                     !.env_parent_id = parent_id,
                     !.env_status = "RUNNABLE",
                     !.env_runs = 0,
                     !.env_tf = InitialTf(env)],
                 !.env_free_list = k.envs[env].env_link]]

(***************************************************************************)
(* env_free                                                                *)
(***************************************************************************)
env_free_nolink(k, env) ==
    [k EXCEPT !.envs[env] = [@ EXCEPT !.env_status = "FREE"],
              !.env_free_list = env]

env_free_second(k, env) ==
    IF k.env_free_list = NULL
    THEN [k EXCEPT !.envs[env] = [@ EXCEPT !.env_status = "FREE",
                                           !.env_link = NULL],
                   !.env_free_list = env]
    ELSE [k EXCEPT !.envs[env] = [@ EXCEPT
                       !.env_status = "FREE",
                       !.env_link = k.envs[k.env_free_list].env_link],
                   !.envs[k.env_free_list] = [@ EXCEPT !.env_link = env]]

\* env_free that links the record in after the free slot before it in the
\* table, which keeps a list that is in table order in table order
env_free_sorted(k, env) ==
    LET before == {f \in Slots : k.envs[f].env_status = "FREE" /\ f < env}
    IN IF before = {}
       THEN [k EXCEPT !.envs[env] = [@ EXCEPT !.env_status = "FREE",
                                              !.env_link = k.env_free_list],
                      !.env_free_list = env]
       ELSE LET prev == CHOOSE f \in before : \A g \in before : g <= f
            IN [k EXCEPT !.envs[env] = [@ EXCEPT !.env_status = "FREE",
                                                 !.env_link = k.envs[prev].env_link],
                         !.envs[prev] = [@ EXCEPT !.env_link = env]]

env_free(k, env) ==
    [k EXCEPT !.envs[env] = [@ EXCEPT !.env_status = "FREE",
                                      !.env_link = k.env_free_list],
              !.env_free_list = env]

(***************************************************************************)
(* env_pop_tf: pushes rip and rflags on the stack of the environment, then *)
(* loads the registers; popfq and ret take the two words off again.        *)
(***************************************************************************)
env_pop_tf(k, env) ==
    LET tf == k.envs[env].env_tf
        rsp1 == U64Sub(tf.tf_rsp, U64(8))
        mem1 == StoreWord(k.mem, rsp1, tf.tf_rip)
        rsp2 == U64Sub(rsp1, U64(8))
        mem2 == StoreWord(mem1, rsp2, tf.tf_rflags)
    IN [k EXCEPT !.envs[env].env_tf.tf_rsp = rsp2,
                 !.mem = mem2,
                 !.cpu = [tf EXCEPT !.tf_rsp = U64Add(rsp2, U64(16))]]

(***************************************************************************)
(* env_run                                                                 *)
(***************************************************************************)
CurenvAssert(k) ==
    k.envs[k.curenv].env_status \in {"RUNNING", "FREE", "DYING"}

TargetAssert(k, env) ==
    k.envs[env].env_status \in {"RUNNABLE", "DYING"}

\* env_run that leaves the status of the previous environment alone
Demote_never(k) == k

\* env_run that makes the previous environment runnable whatever its status
Demote_always(k) ==
    IF k.curenv # NULL
    THEN [k EXCEPT !.envs[k.curenv].env_status = "RUNNABLE"]
    ELSE k

Demote(k) ==
    IF k.curenv # NULL /\ k.envs[k.curenv].env_status = "RUNNING"
    THEN [k EXCEPT !.envs[k.curenv].env_status = "RUNNABLE"]
    ELSE k

\* env_run that does not count the run
env_run_nocount(k, env) ==
    IF env = NULL THEN Panic(k)
    ELSE IF k.curenv # NULL /\ ~CurenvAssert(k) THEN Panic(k)
    ELSE IF k.curenv # NULL /\ k.envs[k.curenv].env_status = "DYING" THEN Panic(k)
    ELSE LET k1 == Demote(k)
         IN IF ~TargetAssert(k1, env) THEN Panic(k1)
            ELSE env_pop_tf([k1 EXCEPT !.curenv = env,
                                       !.envs[env].env_status = "RUNNING"], env)

\* env_run that returns when the target cannot be run
env_run_returns(k, env) ==
    IF env = NULL THEN Panic(k)
    ELSE IF k.curenv # NULL /\ ~CurenvAssert(k) THEN Panic(k)
    ELSE IF k.curenv # NULL /\ k.envs[k.curenv].env_status = "DYING" THEN Panic(k)
    ELSE LET k1 == Demote(k)
         IN IF ~TargetAssert(k1, env) THEN k1
            ELSE env_pop_tf([k1 EXCEPT !.curenv = env,
                                       !.envs[env].env_status = "RUNNING",
                                       !.envs[env].env_runs = @ + 1], env)

\* env_run that counts the run twice
env_run_twice(k, env) ==
    IF env = NULL THEN Panic(k)
    ELSE IF k.curenv # NULL /\ ~CurenvAssert(k) THEN Panic(k)
    ELSE IF k.curenv # NULL /\ k.envs[k.curenv].env_status = "DYING" THEN Panic(k)
    ELSE LET k1 == Demote(k)
         IN IF ~TargetAssert(k1, env) THEN Panic(k1)
            ELSE env_pop_tf([k1 EXCEPT !.curenv = env,
                                       !.envs[env].env_status = "RUNNING",
                                       !.envs[env].env_runs = @ + 2], env)

env_run(k, env) ==
    IF env = NULL THEN Panic(k)
    ELSE IF k.curenv # NULL /\ ~CurenvAssert(k) THEN Panic(k)
    ELSE IF k.curenv # NULL /\ k.envs[k.curenv].env_status = "DYING" THEN Panic(k)
    ELSE LET k1 == Demote(k)
         IN IF ~TargetAssert(k1, env) THEN Panic(k1)
            ELSE env_pop_tf([k1 EXCEPT !.curenv = env,
                                       !.envs[env].env_status = "RUNNING",
                                       !.envs[env].env_runs = @ + 1], env)

(***************************************************************************)
(* sched_yield (kern/sched.c): runs an environment that is runnable, or    *)
(* the current one when it is still running; halts when there is none.     *)
(***************************************************************************)
Candidates(k) ==
    {e \in Slots : \/ k.envs[e].env_status = "RUNNABLE"
                   \/ (e = k.curenv /\ k.envs[e].env_status = "RUNNING")}

sched_yield(k, pick) ==
    IF Candidates(k) = {} THEN [k EXCEPT !.fatal = "halt"] ELSE env_run(k, pick)

(***************************************************************************)
(* env_destroy                                                             *)
(***************************************************************************)
\* env_destroy that leaves the environment to be freed later
env_destroy_dying(k, env, pick) ==
    sched_yield([k EXCEPT !.envs[env].env_status = "DYING"], pick)

\* env_destroy that returns to its caller after env_free
env_destroy_noyield(k, env, pick) == env_free(k, env)

env_destroy(k, env, pick) == sched_yield(env_free(k, env), pick)

(***************************************************************************)
(* The executable image handed to load_icode: the buffer `binary` of       *)
(* `size` bytes.  The fields are what the code reads through struct Elf at *)
(* binary, struct Proghdr at binary + e_phoff and struct Secthdr at        *)
(* binary + e_shoff; ph and sh have e_phnum and e_shnum entries.           *)
(***************************************************************************)
SizeofElf == 64
SizeofProghdr == 56
SizeofSecthdr == 64
ELF_MAGIC == 1179403647
ET_EXEC == 2
ELF_CLASS64 == 2
ELF_SHN_UNDEF == 0
ELF_SHN_XINDEX == 65535
ELF_SHT_NOBITS == 8
ELF_SHT_STRTAB == 3
PT_LOAD == 1
ELF_SHT_SYMTAB == 2
SizeofElf64Sym == 24
STB_GLOBAL == 1
STT_OBJECT == 1

\* the byte of the file at offset off; outside the buffer it is whatever
\* lies next to it in the kernel's memory (junk)
FileByte(img, off, junk) ==
    IF U64Lt(off, img.size) THEN (img.seed + off[4]) % 256 ELSE junk

\* memcpy((void *) dst, binary + off, n), for n < 2^16
MemCpy(m, dst, img, off, n, junk) ==
    [c \in {Cell(U64Add(dst, U64(i))) : i \in 0 .. (n[4] - 1)} |->
        FileByte(img, U64Add(off, U64(c - Cell(dst))), junk)] @@ m

\* some byte of the copy is read outside the buffer
ReadsOutside(img, off, n) ==
    /\ n # U64(0)
    /\ ~(U64Lt(off, img.size) /\ U64Le(n, U64Sub(img.size, off)))

(***************************************************************************)
(* load_icode: the checks of the header, in the order of the code.         *)
(***************************************************************************)
\* the checks of the header without those that the offsets of the two
\* tables are below size
HeaderOk_sumsonly(img) ==
    /\ ~U64Gt(U64(SizeofElf), img.size)
    /\ img.e_magic = ELF_MAGIC
    /\ img.e_type = ET_EXEC
    /\ img.e_class = ELF_CLASS64
    /\ img.e_shentsize = SizeofSecthdr
    /\ img.e_shstrndx # ELF_SHN_UNDEF
    /\ img.e_shstrndx # ELF_SHN_XINDEX
    /\ ~(img.e_shstrndx >= img.e_shnum)
    /\ img.e_phentsize = SizeofProghdr
    /\ img.e_phoff # U64(0)
    /\ ~U64Gt(U64Add(img.e_shoff, U64(SizeofSecthdr * img.e_shnum)), img.size)
    /\ ~U64Gt(U64Add(img.e_phoff, U64(SizeofProghdr * img.e_phnum)), img.size)

HeaderOk(img) ==
    /\ ~U64Gt(U64(SizeofElf), img.size)
    /\ img.e_magic = ELF_MAGIC
    /\ img.e_type = ET_EXEC
    /\ img.e_class = ELF_CLASS64
    /\ img.e_shentsize = SizeofSecthdr
    /\ img.e_shstrndx # ELF_SHN_UNDEF
    /\ img.e_shstrndx # ELF_SHN_XINDEX
    /\ ~(img.e_shstrndx >= img.e_shnum)
    /\ img.e_phentsize = SizeofProghdr
    /\ img.e_phoff # U64(0)
    /\ ~U64Ge(img.e_shoff, img.size)
    /\ ~U64Ge(img.e_phoff, img.size)
    /\ ~U64Gt(U64Add(img.e_shoff, U64(SizeofSecthdr * img.e_shnum)), img.size)
    /\ ~U64Gt(U64Add(img.e_phoff, U64(SizeofProghdr * img.e_phnum)), img.size)

\* the loop over the program headers that also clears the p_memsz - p_filesz
\* bytes after each copy
RECURSIVE LoadSegments_zerofill(_, _, _, _, _)
LoadSegments_zerofill(m, img, segment_index, junk, oob) ==
    IF segment_index > img.e_phnum
    THEN [ok |-> TRUE, mem |-> m, oob |-> oob]
    ELSE LET program_header == img.ph[segment_index]
         IN IF program_header.p_type = PT_LOAD
                  /\ U64Gt(program_header.p_filesz, U64(0))
            THEN IF U64Gt(U64Add(program_header.p_offset, program_header.p_filesz),
                          img.size)
                 THEN [ok |-> FALSE, mem |-> m, oob |-> oob]
                 ELSE LoadSegments_zerofill(
                        [c \in {Cell(U64Add(program_header.p_pa, U64(i))) :
                                  i \in program_header.p_filesz[4] ..
                                        (program_header.p_memsz[4] - 1)} |-> 0]
                        @@ MemCpy(m, program_header.p_pa, img,
                                  program_header.p_offset,
                                  program_header.p_filesz, junk),
                        img, segment_index + 1, junk,
                        oob \/ ReadsOutside(img, program_header.p_offset,
                                            program_header.p_filesz))
            ELSE LoadSegments_zerofill(m, img, segment_index + 1, junk, oob)

\* the loop over the program headers from segment_index on: the memory it
\* leaves, whether it ran to its end, whether it read outside the buffer
RECURSIVE LoadSegments(_, _, _, _, _)
LoadSegments(m, img, segment_index, junk, oob) ==
    IF segment_index > img.e_phnum
    THEN [ok |-> TRUE, mem |-> m, oob |-> oob]
    ELSE LET program_header == img.ph[segment_index]
         IN IF program_header.p_type = PT_LOAD
                  /\ U64Gt(program_header.p_filesz, U64(0))
            THEN IF U64Gt(U64Add(program_header.p_offset, program_header.p_filesz),
                          img.size)
                 THEN [ok |-> FALSE, mem |-> m, oob |-> oob]
                 ELSE LoadSegments(
                        MemCpy(m, program_header.p_pa, img, program_header.p_offset,
                               program_header.p_filesz, junk),
                        img, segment_index + 1, junk,
                        oob \/ ReadsOutside(img, program_header.p_offset,
                                            program_header.p_filesz))
            ELSE LoadSegments(m, img, segment_index + 1, junk, oob)

\* the loop over the section headers
RECURSIVE LoadSections(_, _, _, _, _)
LoadSections(m, img, section_index, junk, oob) ==
    IF section_index > img.e_shnum
    THEN [ok |-> TRUE, mem |-> m, oob |-> oob]
    ELSE LET section_header == img.sh[section_index]
         IN IF section_header.sh_type = ELF_SHT_NOBITS
            THEN LoadSections(m, img, section_index + 1, junk, oob)
            ELSE IF section_header.sh_addr # U64(0)
            THEN IF U64Gt(U64Add(section_header.sh_offset, section_header.sh_size),
                          img.size)
                 THEN [ok |-> FALSE, mem |-> m, oob |-> oob]
                 ELSE LoadSections(
                        MemCpy(m, section_header.sh_addr, img, section_header.sh_offset,
                               section_header.sh_size, junk),
                        img, section_index + 1, junk,
                        oob \/ ReadsOutside(img, section_header.sh_offset,
                                            section_header.sh_size))
            ELSE LoadSections(m, img, section_index + 1, junk, oob)

\* load_icode that records the entry point before the loop over the sections
load_icode_earlyrip(k, env, img, junk) ==
    IF ~HeaderOk(img)
    THEN [ret |-> "-E_INVALID_EXE", k |-> k, oob |-> FALSE]
    ELSE LET segs == LoadSegments(k.mem, img, 1, junk, FALSE)
         IN IF ~segs.ok
            THEN [ret |-> "-E_INVALID_EXE", k |-> [k EXCEPT !.mem = segs.mem],
                  oob |-> segs.oob]
            ELSE LET sects == LoadSections(segs.mem, img, 1, junk, segs.oob)
                     k0 == [k EXCEPT !.envs[env].env_tf.tf_rip = img.e_entry]
                 IN IF ~sects.ok
                    THEN [ret |-> "-E_INVALID_EXE",
                          k |-> [k0 EXCEPT !.mem = sects.mem], oob |-> sects.oob]
                    ELSE LET k1 == [k0 EXCEPT !.mem = sects.mem,
                                              !.envs[env].binary = img.buf]
                         IN IF img.e_entry = U64(0)
                            THEN [ret |-> "-E_INVALID_EXE", k |-> k1,
                                  oob |-> sects.oob]
                            ELSE [ret |-> "0", k |-> k1, oob |-> sects.oob]

load_icode(k, env, img, junk) ==
    IF ~HeaderOk(img)
    THEN [ret |-> "-E_INVALID_EXE", k |-> k, oob |-> FALSE]
    ELSE LET segs == LoadSegments(k.mem, img, 1, junk, FALSE)
         IN IF ~segs.ok
            THEN [ret |-> "-E_INVALID_EXE", k |-> [k EXCEPT !.mem = segs.mem],
                  oob |-> segs.oob]
            ELSE LET sects == LoadSections(segs.mem, img, 1, junk, segs.oob)
                 IN IF ~sects.ok
                    THEN [ret |-> "-E_INVALID_EXE",
                          k |-> [k EXCEPT !.mem = sects.mem], oob |-> sects.oob]
                    ELSE LET k1 == [k EXCEPT !.mem = sects.mem,
                                             !.envs[env].binary = img.buf]
                         IN IF img.e_entry = U64(0)
                            THEN [ret |-> "-E_INVALID_EXE", k |-> k1,
                                  oob |-> sects.oob]
                            ELSE [ret |-> "0",
                                  k |-> [k1 EXCEPT
                                      !.envs[env].env_tf.tf_rip = img.e_entry],
                                  oob |-> sects.oob]

(***************************************************************************)
(* bind_functions.  Section and symbol names are kept as the strings the   *)
(* name offsets point at; img.syms is the array of struct Elf64_Sym at the *)
(* offset of the symbol table section.  The addresses of the kernel's      *)
(* routines are those of the kernel build; find_function (kern/kdebug.c)   *)
(* looks a name up in the debug information: resolver maps the names it    *)
(* knows to their addresses.                                               *)
(***************************************************************************)
ASM_EXPORTED_FUNCTIONS ==
    <<[user_space_fname |-> "sys_yield", kernel_code_address |-> <<0, 0, 66, 4096>>],
      [user_space_fname |-> "sys_exit", kernel_code_address |-> <<0, 0, 66, 4352>>]>>

find_function(resolver, fname) ==
    IF fname \in DOMAIN resolver THEN resolver[fname] ELSE U64(0)

ELF_ST_BIND(st_info) == st_info \div 16

ELF_ST_TYPE(st_info) == st_info % 16

IsBss(section_header) == section_header.sh_name = ".bss"

IsStrtab(section_header) ==
    section_header.sh_type = ELF_SHT_STRTAB /\ section_header.sh_name = ".strtab"

IsSymtab(section_header) == section_header.sh_type = ELF_SHT_SYMTAB

\* the first section at or after section_index that the loop of that kind
\* stops at, 0 if there is none
RECURSIVE FindSection(_, _, _)
FindSection(img, section_index, kind) ==
    IF section_index > img.e_shnum THEN 0
    ELSE LET section_header == img.sh[section_index]
             found == CASE kind = ".bss" -> IsBss(section_header)
                        [] kind = ".strtab" -> IsStrtab(section_header)
                        [] OTHER -> IsSymtab(section_header)
         IN IF found THEN section_index
            ELSE FindSection(img, section_index + 1, kind)

\* the symbol is one the binder patches
IsCandidate(symbol_table_entry, bss_section_va_start, bss_section_va_past_end) ==
    /\ ELF_ST_BIND(symbol_table_entry.st_info) = STB_GLOBAL
    /\ ELF_ST_TYPE(symbol_table_entry.st_info) = STT_OBJECT
    /\ ~U64Lt(symbol_table_entry.st_value, bss_section_va_start)
    /\ ~U64Ge(symbol_table_entry.st_value, bss_section_va_past_end)

\* the entries of the table of the kernel's own entry points with that name
Exported(symbol_name) ==
    {func_index \in 1 .. Len(ASM_EXPORTED_FUNCTIONS) :
        ASM_EXPORTED_FUNCTIONS[func_index].user_space_fname = symbol_name}

\* what is stored through symbol_value for a candidate of that name: the
\* address of the table, else what find_function finds, else 0
\* the address for a candidate, asking find_function first and the table
\* when it finds nothing
BoundAddress_resolverfirst(resolver, symbol_name) ==
    IF find_function(resolver, symbol_name) # U64(0)
    THEN find_function(resolver, symbol_name)
    ELSE IF Exported(symbol_name) # {}
    THEN ASM_EXPORTED_FUNCTIONS[CHOOSE func_index \in Exported(symbol_name) :
            \A other \in Exported(symbol_name) : other <= func_index]
            .kernel_code_address
    ELSE U64(0)

BoundAddress(resolver, symbol_name) ==
    IF Exported(symbol_name) # {}
    THEN ASM_EXPORTED_FUNCTIONS[CHOOSE func_index \in Exported(symbol_name) :
            \A other \in Exported(symbol_name) : other <= func_index]
            .kernel_code_address
    ELSE find_function(resolver, symbol_name)

\* the loop over the symbol table from entry_idx on: the memory it leaves
\* and the stores it made
RECURSIVE BindSymbols(_, _, _, _, _, _, _)
BindSymbols(m, patched, img, entry_idx, bss_start, bss_past_end, resolver) ==
    IF entry_idx > Len(img.syms)
    THEN [mem |-> m, patched |-> patched]
    ELSE LET symbol_table_entry == img.syms[entry_idx]
             symbol_va == symbol_table_entry.st_value
         IN IF ~IsCandidate(symbol_table_entry, bss_start, bss_past_end)
            THEN BindSymbols(m, patched, img, entry_idx + 1, bss_start,
                             bss_past_end, resolver)
            ELSE LET address == BoundAddress(resolver, symbol_table_entry.st_name)
                 IN BindSymbols(StoreWord(m, symbol_va, address),
                                Append(patched, [va |-> symbol_va, address |-> address]),
                                img, entry_idx + 1, bss_start, bss_past_end, resolver)

\* bind_functions that goes on without a section named .strtab
bind_functions_anystrtab(k, env, img, resolver) ==
    IF img.sh[img.e_shstrndx + 1].sh_type # ELF_SHT_STRTAB
    THEN [ret |-> "-1", k |-> k, patched |-> <<>>]
    ELSE LET bss == FindSection(img, 1, ".bss")
         IN IF bss = 0
            THEN [ret |-> "-2", k |-> k, patched |-> <<>>]
            ELSE LET symtab == FindSection(img, 1, ".symtab")
                 IN IF symtab = 0
                    THEN [ret |-> "0", k |-> k, patched |-> <<>>]
                    ELSE LET bss_section_va_start == img.sh[bss].sh_addr
                             bss_section_va_past_end ==
                                 U64Add(bss_section_va_start, img.sh[bss].sh_size)
                             r == BindSymbols(k.mem, <<>>, img, 1,
                                              bss_section_va_start,
                                              bss_section_va_past_end, resolver)
                         IN [ret |-> "0", k |-> [k EXCEPT !.mem = r.mem],
                             patched |-> r.patched]

\* bind_functions that fails when there is no symbol table
bind_functions_needsymtab(k, env, img, resolver) ==
    IF img.sh[img.e_shstrndx + 1].sh_type # ELF_SHT_STRTAB
    THEN [ret |-> "-1", k |-> k, patched |-> <<>>]
    ELSE LET bss == FindSection(img, 1, ".bss")
         IN IF bss = 0
            THEN [ret |-> "-2", k |-> k, patched |-> <<>>]
            ELSE IF FindSection(img, 1, ".strtab") = 0
            THEN [ret |-> "-3", k |-> k, patched |-> <<>>]
            ELSE LET symtab == FindSection(img, 1, ".symtab")
                 IN IF symtab = 0
                    THEN [ret |-> "-4", k |-> k, patched |-> <<>>]
                    ELSE LET bss_section_va_start == img.sh[bss].sh_addr
                             bss_section_va_past_end ==
                                 U64Add(bss_section_va_start, img.sh[bss].sh_size)
                             r == BindSymbols(k.mem, <<>>, img, 1,
                                              bss_section_va_start,
                                              bss_section_va_past_end, resolver)
                         IN [ret |-> "0", k |-> [k EXCEPT !.mem = r.mem],
                             patched |-> r.patched]

bind_functions(k, env, img, resolver) ==
    IF img.sh[img.e_shstrndx + 1].sh_type # ELF_SHT_STRTAB
    THEN [ret |-> "-1", k |-> k, patched |-> <<>>]
    ELSE LET bss == FindSection(img, 1, ".bss")
         IN IF bss = 0
            THEN [ret |-> "-2", k |-> k, patched |-> <<>>]
            ELSE IF FindSection(img, 1, ".strtab") = 0
            THEN [ret |-> "-3", k |-> k, patched |-> <<>>]
            ELSE LET symtab == FindSection(img, 1, ".symtab")
                 IN IF symtab = 0
                    THEN [ret |-> "0", k |-> k, patched |-> <<>>]
                    ELSE LET bss_section_va_start == img.sh[bss].sh_addr
                             bss_section_va_past_end ==
                                 U64Add(bss_section_va_start, img.sh[bss].sh_size)
                             r == BindSymbols(k.mem, <<>>, img, 1,
                                              bss_section_va_start,
                                              bss_section_va_past_end, resolver)
                         IN [ret |-> "0", k |-> [k EXCEPT !.mem = r.mem],
                             patched |-> r.patched]

(***************************************************************************)
(* env_create: env_alloc with parent 0, load_icode, bind_functions; a      *)
(* failure of any of them is a panic.                                      *)
(***************************************************************************)
\* env_create that does not look at what bind_functions returned
env_create_unchecked(k, img, junk, resolver) ==
    LET allocated == env_alloc(k, 0)
    IN IF allocated.ret # "0"
       THEN [step |-> "env_alloc", env |-> NULL, k |-> Panic(allocated.k)]
       ELSE LET env == allocated.newenv
                loaded == load_icode(allocated.k, env, img, junk)
            IN IF loaded.ret # "0"
               THEN [step |-> "load_icode", env |-> env, k |-> Panic(loaded.k)]
               ELSE [step |-> "done", env |-> env,
                     k |-> bind_functions(loaded.k, env, img, resolver).k]

env_create(k, img, junk, resolver) ==
    LET allocated == env_alloc(k, 0)
    IN IF allocated.ret # "0"
       THEN [step |-> "env_alloc", env |-> NULL, k |-> Panic(allocated.k)]
       ELSE LET env == allocated.newenv
                loaded == load_icode(allocated.k, env, img, junk)
            IN IF loaded.ret # "0"
               THEN [step |-> "load_icode", env |-> env, k |-> Panic(loaded.k)]
               ELSE LET bound == bind_functions(loaded.k, env, img, resolver)
                    IN IF bound.ret # "0"
                       THEN [step |-> "bind_functions", env |-> env,
                             k |-> Panic(bound.k)]
                       ELSE [step |-> "done", env |-> env, k |-> bound.k]

(***************************************************************************)
(* csys_exit and csys_yield, entered from the running environment.         *)
(***************************************************************************)
csys_exit(k, pick) ==
    IF k.curenv = NULL THEN Panic(k) ELSE env_destroy(k, k.curenv, pick)

\* csys_yield that goes to the scheduler without saving the registers
csys_yield_nosave(k, tf, pick) == sched_yield(k, pick)

\* csys_yield marking the caller RUNNABLE itself before it yields
csys_yield_premark(k, tf, pick) ==
    sched_yield([k EXCEPT !.envs[k.curenv].env_tf = tf,
                          !.envs[k.curenv].env_status = "RUNNABLE"], pick)

csys_yield(k, tf, pick) ==
    sched_yield([k EXCEPT !.envs[k.curenv].env_tf = tf], pick)

(***************************************************************************)
(* The operations as steps of the kernel.  `last` records the call and     *)
(* what it returned.                                                       *)
(***************************************************************************)
NoOp == [op |-> "none", envid |-> 0, perm |-> FALSE, ret |-> "0", env |-> NULL]

Op(name, ret, env) == [NoOp EXCEPT !.op = name, !.ret = ret, !.env = env]

\* every identity env_alloc has handed out
Identities ==
    retired \cup {envs[e].env_id : e \in {x \in Slots : envs[x].env_id # 0}}

\* the parent handles env_alloc is called with: 0 (env_create), or the
\* identity of the caller
ParentIds == {0} \cup (IF curenv = NULL THEN {} ELSE {envs[curenv].env_id})

\* handles: 0, every identity handed out so far, a bare slot index, an
\* identity of a generation not handed out yet, and a negative value
Handles ==
    {0} \cup Identities \cup {NENV - 1, 2 * (2 ^ ENVGENSHIFT) + 1, -1}

\* the handles the envid2env step is taken with: 0, the identities of the
\* first and the last slot, and the identities handed out again since
CalledHandles ==
    {0} \cup retired
        \cup {envs[e].env_id : e \in {x \in {0, NENV - 1} : envs[x].env_id # 0}}

\* what a read of curenv->env_id through curenv == NULL may find
NullReads == {0} \cup Identities

\* how often env_run was entered, as far as the run counters tell
RECURSIVE RunsUpTo(_, _)
RunsUpTo(k, e) == IF e < 0 THEN 0 ELSE k.envs[e].env_runs + RunsUpTo(k, e - 1)

RunsLeft(k) == RunsUpTo(k, NENV - 1) < MaxRuns

\* the environments the scheduler may run next
BoundedPicks(k) ==
    IF Candidates(k) = {} THEN {NULL}
    ELSE {e \in Candidates(k) : RunsLeft(k)}

\* the registers the sys_yield stub captured from the running environment
UserTf == [cpu EXCEPT !.tf_regs = 1, !.tf_rip = U64Add(cpu.tf_rip, U64(2))]

EnvAlloc(parent_id, wraps) ==
    /\ fatal = "none"
    /\ env_free_list # NULL => allocs < MaxAllocs
    /\ LET r == env_alloc(KState, parent_id)
       IN IF GenerationOverflows(KState) /\ ~wraps
          THEN /\ Commit(Panic(KState))
               /\ last' = Op("env_alloc", "trap", NULL)
               /\ UNCHANGED <<retired, allocs, image, debuginfo>>
          ELSE /\ Commit(r.k)
               /\ last' = [Op("env_alloc", r.ret, r.newenv) EXCEPT !.envid = parent_id]
               /\ retired' = IF r.ret = "0" /\ envs[r.newenv].env_id # 0
                             THEN retired \cup {envs[r.newenv].env_id}
                             ELSE retired
               /\ allocs' = IF r.ret = "0" THEN allocs + 1 ELSE allocs
               /\ UNCHANGED <<image, debuginfo>>

\* env_free of an environment other than the running one (the running one
\* is released through env_destroy, which goes on to the scheduler)
EnvFree(env) ==
    /\ fatal = "none"
    /\ envs[env].env_status # "FREE"
    /\ env # curenv
    /\ Commit(env_free(KState, env))
    /\ last' = Op("env_free", "0", env)
    /\ UNCHANGED <<retired, allocs, image, debuginfo>>

Envid2Env(envid, need_check_perm, nullid) ==
    /\ fatal = "none"
    /\ LET r == envid2env(KState, envid, need_check_perm, nullid)
       IN last' = [Op("envid2env", r.ret, r.env_store) EXCEPT
                       !.envid = envid, !.perm = need_check_perm]
    /\ UNCHANGED <<envs, env_free_list, curenv, mem, cpu, fatal, retired, allocs,
                   image, debuginfo>>

EnvRun(env) ==
    /\ fatal = "none"
    /\ RunsLeft(KState)
    /\ Commit(env_run(KState, env))
    /\ last' = Op("env_run", "0", env)
    /\ UNCHANGED <<retired, allocs, image, debuginfo>>

EnvDestroy(env, pick) ==
    /\ fatal = "none"
    /\ envs[env].env_status # "FREE"
    /\ Commit(env_destroy(KState, env, pick))
    /\ last' = Op("env_destroy", "0", env)
    /\ UNCHANGED <<retired, allocs, image, debuginfo>>

CsysExit(pick) ==
    /\ fatal = "none"
    /\ curenv # NULL
    /\ envs[curenv].env_status = "RUNNING"
    /\ Commit(csys_exit(KState, pick))
    /\ last' = Op("csys_exit", "0", curenv)
    /\ UNCHANGED <<retired, allocs, image, debuginfo>>

CsysYield(tf, pick) ==
    /\ fatal = "none"
    /\ curenv # NULL
    /\ envs[curenv].env_status = "RUNNING"
    /\ Commit(csys_yield(KState, tf, pick))
    /\ last' = Op("csys_yield", "0", curenv)
    /\ UNCHANGED <<retired, allocs, image, debuginfo>>

LoadIcode(env, junk) ==
    /\ fatal = "none"
    /\ last.op = "env_alloc" /\ last.ret = "0" /\ last.env = env
    /\ LET r == load_icode(KState, env, image, junk)
       IN /\ Commit(r.k)
          /\ last' = Op("load_icode", r.ret, env)
    /\ UNCHANGED <<retired, allocs, image, debuginfo>>

\* bind_functions, called as env_create calls it: on the image load_icode
\* has just loaded
BindFunctions(env) ==
    /\ fatal = "none"
    /\ last.op = "load_icode" /\ last.ret = "0" /\ last.env = env
    /\ LET r == bind_functions(KState, env, image, debuginfo)
       IN /\ Commit(r.k)
          /\ last' = Op("bind_functions", r.ret, env)
    /\ UNCHANGED <<retired, allocs, image, debuginfo>>

\* env_create(binary, size, type): `ret` of the record is the call that
\* failed, or "done"
EnvCreate(img, junk) ==
    /\ fatal = "none"
    /\ env_free_list # NULL => allocs < MaxAllocs
    /\ LET r == env_create(KState, img, junk, debuginfo)
       IN /\ Commit(r.k)
          /\ last' = Op("env_create", r.step, r.env)
          /\ allocs' = IF r.env # NULL THEN allocs + 1 ELSE allocs
          /\ retired' = IF r.env # NULL /\ envs[r.env].env_id # 0
                        THEN retired \cup {envs[r.env].env_id}
                        ELSE retired
    /\ image' = img
    /\ UNCHANGED debuginfo

(***************************************************************************)
(* The images load_icode is tried on: a well-formed image of two loadable  *)
(* segments and four sections (none, .shstrtab, .data, .bss), and the      *)
(* images that differ from it in up to MaxFaults places.                   *)
(***************************************************************************)
MaxFaults == 2

\* 2^64 - n
U64Minus(n) == U64Neg(U64(n))

GoodImage ==
    [buf |-> "binary", seed |-> 17, size |-> U64(480),
     e_magic |-> ELF_MAGIC, e_type |-> ET_EXEC, e_class |-> ELF_CLASS64,
     e_entry |-> U64(4096), e_phoff |-> U64(64), e_shoff |-> U64(192),
     e_phentsize |-> SizeofProghdr, e_phnum |-> 2,
     e_shentsize |-> SizeofSecthdr, e_shnum |-> 4, e_shstrndx |-> 1,
     syms |-> <<>>,
     ph |-> <<[p_type |-> PT_LOAD, p_offset |-> U64(448), p_filesz |-> U64(4),
               p_memsz |-> U64(8), p_pa |-> U64(4096)],
              [p_type |-> PT_LOAD, p_offset |-> U64(456), p_filesz |-> U64(3),
               p_memsz |-> U64(3), p_pa |-> U64(8192)]>>,
     sh |-> <<[sh_name |-> "", sh_type |-> 0, sh_addr |-> U64(0),
               sh_offset |-> U64(0), sh_size |-> U64(0)],
              [sh_name |-> ".shstrtab", sh_type |-> ELF_SHT_STRTAB,
               sh_addr |-> U64(0), sh_offset |-> U64(460), sh_size |-> U64(10)],
              [sh_name |-> ".data", sh_type |-> 1,
               sh_addr |-> U64(12288), sh_offset |-> U64(470), sh_size |-> U64(2)],
              [sh_name |-> ".bss", sh_type |-> ELF_SHT_NOBITS,
               sh_addr |-> U64(16384), sh_offset |-> U64(480),
               sh_size |-> U64(16)]>>]

Faults == 1 .. 30

Fault(img, i) ==
    CASE i = 1 -> [img EXCEPT !.size = U64(32)]
      [] i = 2 -> [img EXCEPT !.size = U64(200)]
      [] i = 3 -> [img EXCEPT !.size = U64(459)]
      [] i = 4 -> [img EXCEPT !.e_magic = 0]
      [] i = 5 -> [img EXCEPT !.e_type = 1]
      [] i = 6 -> [img EXCEPT !.e_class = 1]
      [] i = 7 -> [img EXCEPT !.e_shentsize = 40]
      [] i = 8 -> [img EXCEPT !.e_shstrndx = ELF_SHN_UNDEF]
      [] i = 9 -> [img EXCEPT !.e_shstrndx = ELF_SHN_XINDEX]
      [] i = 10 -> [img EXCEPT !.e_shstrndx = 4]
      [] i = 11 -> [img EXCEPT !.e_phentsize = 32]
      [] i = 12 -> [img EXCEPT !.e_phoff = U64(0)]
      [] i = 13 -> [img EXCEPT !.e_phoff = U64(480)]
      [] i = 14 -> [img EXCEPT !.e_phoff = U64(400)]
      [] i = 15 -> [img EXCEPT !.e_shoff = U64(480)]
      [] i = 16 -> [img EXCEPT !.e_shoff = U64(300)]
      [] i = 17 -> [img EXCEPT !.e_entry = U64(0)]
      [] i = 18 -> [img EXCEPT !.ph[1].p_filesz = U64(0)]
      [] i = 19 -> [img EXCEPT !.ph[1].p_type = 4]
      [] i = 20 -> [img EXCEPT !.ph[2].p_offset = U64(478)]
      [] i = 21 -> [img EXCEPT !.ph[2].p_offset = U64Minus(2)]
      [] i = 22 -> [img EXCEPT !.ph[1].p_offset = U64(478)]
      [] i = 23 -> [img EXCEPT !.sh[3].sh_addr = U64(0)]
      [] i = 24 -> [img EXCEPT !.sh[3].sh_type = ELF_SHT_NOBITS]
      [] i = 25 -> [img EXCEPT !.sh[3].sh_offset = U64(479)]
      [] i = 26 -> [img EXCEPT !.sh[3].sh_offset = U64Minus(1)]
      [] i = 27 -> [img EXCEPT !.sh[4].sh_type = 1]
      [] i = 28 -> [img EXCEPT !.e_shoff = U64Minus(64)]
      [] i = 29 -> [img EXCEPT !.e_phoff = U64Minus(56)]
      [] OTHER -> [img EXCEPT !.size = <<32767, 65535, 65535, 65535>>]

RECURSIVE ImagesWith(_)
ImagesWith(n) ==
    IF n = 0 THEN {GoodImage}
    ELSE LET fewer == ImagesWith(n - 1)
         IN fewer \cup {Fault(img, i) : img \in fewer, i \in Faults}

TestImages == ImagesWith(MaxFaults)

(***************************************************************************)
(* The images bind_functions is tried on: an image like the test program   *)
(* (prog/test2.c), with .data at 0x3000, 36 bytes of .bss at 0x4000 and    *)
(* four bytes of .data1 after it, and a symbol table of up to MaxSyms of   *)
(* the symbols below.                                                      *)
(*   0x3000 great_function   initialized global pointer (.data)            *)
(*   0x4000 __bss_start      global marker without a type                  *)
(*   0x4000 counter          static int                                    *)
(*   0x4004 flag             global int                                    *)
(*   0x4008 sys_yield        global pointer                                *)
(*   0x4010 cprintf          global pointer                                *)
(*   0x4018 GRADE3_FAIL      global pointer, known to nobody               *)
(*   0x4020 tail             global int, the last four bytes of .bss       *)
(*   0x4024 after            initialized static int (.data1)               *)
(***************************************************************************)
MaxSyms == 2

Symbol(name, bind, type, va, size) ==
    [st_name |-> name, st_info |-> 16 * bind + type, st_value |-> U64(va),
     st_size |-> size]

SymbolPool ==
    {Symbol("great_function", STB_GLOBAL, STT_OBJECT, 12288, 8),
     Symbol("__bss_start", STB_GLOBAL, 0, 16384, 0),
     Symbol("counter", 0, STT_OBJECT, 16384, 4),
     Symbol("flag", STB_GLOBAL, STT_OBJECT, 16388, 4),
     Symbol("sys_yield", STB_GLOBAL, STT_OBJECT, 16392, 8),
     Symbol("cprintf", STB_GLOBAL, STT_OBJECT, 16400, 8),
     Symbol("GRADE3_FAIL", STB_GLOBAL, STT_OBJECT, 16408, 8),
     Symbol("tail", STB_GLOBAL, STT_OBJECT, 16416, 4),
     Symbol("after", 0, STT_OBJECT, 16420, 4)}

\* the symbol tables of n entries, no symbol twice
RECURSIVE SymbolTables(_)
SymbolTables(n) ==
    IF n = 0 THEN {<<>>}
    ELSE LET shorter == SymbolTables(n - 1)
         IN shorter \cup
            {Append(t, sym) : t \in {x \in shorter : Len(x) = n - 1},
                              sym \in SymbolPool}

NoSymbolTwice(t) == \A i, j \in 1 .. Len(t) : t[i] = t[j] => i = j

BindImage(symbols) ==
    [buf |-> "binary", seed |-> 17, size |-> U64(1024),
     e_magic |-> ELF_MAGIC, e_type |-> ET_EXEC, e_class |-> ELF_CLASS64,
     e_entry |-> U64(4096), e_phoff |-> U64(64), e_shoff |-> U64(192),
     e_phentsize |-> SizeofProghdr, e_phnum |-> 1,
     e_shentsize |-> SizeofSecthdr, e_shnum |-> 7, e_shstrndx |-> 1,
     syms |-> symbols,
     ph |-> <<[p_type |-> PT_LOAD, p_offset |-> U64(640), p_filesz |-> U64(4),
               p_memsz |-> U64(4), p_pa |-> U64(4096)]>>,
     sh |-> <<[sh_name |-> "", sh_type |-> 0, sh_addr |-> U64(0),
               sh_offset |-> U64(0), sh_size |-> U64(0)],
              [sh_name |-> ".shstrtab", sh_type |-> ELF_SHT_STRTAB,
               sh_addr |-> U64(0), sh_offset |-> U64(648), sh_size |-> U64(40)],
              [sh_name |-> ".data", sh_type |-> 1,
               sh_addr |-> U64(12288), sh_offset |-> U64(688), sh_size |-> U64(8)],
              [sh_name |-> ".bss", sh_type |-> ELF_SHT_NOBITS,
               sh_addr |-> U64(16384), sh_offset |-> U64(696),
               sh_size |-> U64(36)],
              [sh_name |-> ".data1", sh_type |-> 1,
               sh_addr |-> U64(16420), sh_offset |-> U64(696), sh_size |-> U64(4)],
              [sh_name |-> ".symtab", sh_type |-> ELF_SHT_SYMTAB,
               sh_addr |-> U64(0), sh_offset |-> U64(704),
               sh_size |-> U64(SizeofElf64Sym * Len(symbols))],
              [sh_name |-> ".strtab", sh_type |-> ELF_SHT_STRTAB,
               sh_addr |-> U64(0), sh_offset |-> U64(800),
               sh_size |-> U64(100)]>>]

BindImages ==
    {BindImage(t) : t \in {x \in SymbolTables(MaxSyms) : NoSymbolTwice(x)}}

\* the names the debug information of the kernel holds
KernelSymbols == [fname \in {"cprintf"} |-> <<0, 0, 66, 8192>>]

Resolvers ==
    {<<>>,
     KernelSymbols,
     [fname \in {"cprintf", "sys_yield"} |->
        IF fname = "cprintf" THEN <<0, 0, 66, 8192>> ELSE <<0, 0, 66, 12288>>]}

(***************************************************************************)
(* The kernel after env_init.                                              *)
(***************************************************************************)
Init ==
    /\ envs = env_init
    /\ env_free_list = 0
    /\ curenv = NULL
    /\ mem = <<>>
    /\ cpu = NoCpu
    /\ fatal = "none"
    /\ last = NoOp
    /\ retired = {}
    /\ allocs = 0
    /\ image = GoodImage
    /\ debuginfo = KernelSymbols

Next ==
    \/ \E parent_id \in ParentIds, wraps \in BOOLEAN :
          (wraps \/ GenerationOverflows(KState)) /\ EnvAlloc(parent_id, wraps)
    \/ \E env \in Slots : EnvFree(env)
    \/ \E envid \in CalledHandles, need_check_perm \in BOOLEAN, nullid \in NullReads :
          /\ (curenv # NULL \/ ~need_check_perm) => nullid = 0
          /\ Envid2Env(envid, need_check_perm, nullid)
    \/ \E env \in Slots : EnvRun(env)
    \/ \E env \in Slots :
          \E pick \in BoundedPicks(env_free(KState, env)) : EnvDestroy(env, pick)
    \/ /\ curenv # NULL
       /\ \E pick \in BoundedPicks(env_free(KState, curenv)) : CsysExit(pick)
    \/ \E pick \in BoundedPicks(KState) : CsysYield(UserTf, pick)

Spec == Init /\ [][Next]_vars

(***************************************************************************)
(* An environment table that has been in use for long: some slots have     *)
(* gone through every generation (their identity holds the last one, the   *)
(* first one was handed out long ago), and every slot is free again.       *)
(***************************************************************************)
LastGeneration == INT32_MAX - (2 ^ ENVGENSHIFT - 1)

AgedTable(aged) ==
    [i \in Slots |->
        IF i \in aged
        THEN [env_init[i] EXCEPT !.env_id = LastGeneration + i,
                                 !.env_tf = InitialTf(i)]
        ELSE env_init[i]]

InitAged ==
    /\ \E aged \in SUBSET Slots :
          /\ envs = AgedTable(aged)
          /\ retired = {2 ^ ENVGENSHIFT + i : i \in aged}
    /\ env_free_list = 0
    /\ curenv = NULL
    /\ mem = <<>>
    /\ cpu = NoCpu
    /\ fatal = "none"
    /\ last = NoOp
    /\ allocs = 0
    /\ image = GoodImage
    /\ debuginfo = KernelSymbols

\* the table operations on their own: allocation, release and lookup
NextAged ==
    \/ \E parent_id \in ParentIds, wraps \in BOOLEAN :
          (wraps \/ GenerationOverflows(KState)) /\ EnvAlloc(parent_id, wraps)
    \/ \E env \in Slots : EnvFree(env)
    \/ \E envid \in CalledHandles, need_check_perm \in BOOLEAN, nullid \in NullReads :
          /\ (curenv # NULL \/ ~need_check_perm) => nullid = 0
          /\ Envid2Env(envid, need_check_perm, nullid)

SpecAged == InitAged /\ [][NextAged]_vars

(***************************************************************************)
(* An environment table whose slots have all been used once and are free   *)
(* again (released last slot first, so that the free list is in table      *)
(* order): env_free has left in each record everything but the status and  *)
(* the link (env.c:750-752).  The environments of the slots in `ran` have   *)
(* run and have yielded: their records hold a run counter and the          *)
(* registers csys_yield saved.                                             *)
(***************************************************************************)
UsedTable(ran) ==
    [i \in Slots |->
        [env_init[i] EXCEPT
            !.env_id = 2 ^ ENVGENSHIFT + i,
            !.env_parent_id = IF i = 0 THEN 0 ELSE 2 ^ ENVGENSHIFT,
            !.env_runs = IF i \in ran THEN 2 ELSE 0,
            !.env_tf = IF i \in ran
                       THEN [InitialTf(i) EXCEPT !.tf_regs = 1,
                                                 !.tf_rip = U64(4098),
                                                 !.tf_rflags = U64(582)]
                       ELSE InitialTf(i)]]

InitUsed ==
    /\ \E ran \in SUBSET Slots : envs = UsedTable(ran)
    /\ env_free_list = 0
    /\ curenv = NULL
    /\ mem = <<>>
    /\ cpu = NoCpu
    /\ fatal = "none"
    /\ last = NoOp
    /\ retired = {}
    /\ allocs = 0
    /\ image = GoodImage
    /\ debuginfo = KernelSymbols

SpecUsed == InitUsed /\ [][NextAged]_vars

(***************************************************************************)
(* load_icode on its own: env_create has allocated the environment and     *)
(* hands the image to load_icode.                                          *)
(***************************************************************************)
InitLoad ==
    /\ envs = env_alloc([envs |-> env_init, env_free_list |-> 0, curenv |-> NULL,
                         mem |-> <<>>, cpu |-> NoCpu, fatal |-> "none"], 0).k.envs
    /\ env_free_list = env_init[0].env_link
    /\ curenv = NULL
    /\ mem = <<>>
    /\ cpu = NoCpu
    /\ fatal = "none"
    /\ last = Op("env_alloc", "0", 0)
    /\ retired = {}
    /\ allocs = 1
    /\ image \in TestImages
    /\ debuginfo = KernelSymbols

NextLoad == \E junk \in {0, 255} : LoadIcode(0, junk)

SpecLoad == InitLoad /\ [][NextLoad]_vars

(***************************************************************************)
(* bind_functions on its own: env_create has allocated the environment and *)
(* load_icode has loaded the image.                                        *)
(***************************************************************************)
FreshKernel ==
    [envs |-> env_init, env_free_list |-> 0, curenv |-> NULL, mem |-> <<>>,
     cpu |-> NoCpu, fatal |-> "none"]

Loaded(img) == load_icode(env_alloc(FreshKernel, 0).k, 0, img, 0).k

InitBind ==
    /\ image \in BindImages
    /\ debuginfo \in Resolvers
    /\ envs = Loaded(image).envs
    /\ env_free_list = Loaded(image).env_free_list
    /\ curenv = NULL
    /\ mem = Loaded(image).mem
    /\ cpu = NoCpu
    /\ fatal = "none"
    /\ last = Op("load_icode", "0", 0)
    /\ retired = {}
    /\ allocs = 1

NextBind == BindFunctions(0)

SpecBind == InitBind /\ [][NextBind]_vars

(***************************************************************************)
(* A table in full use: after env_init, env_alloc has been called until    *)
(* every slot holds an environment; then slots are released, handed out    *)
(* again and looked up.                                                    *)
(***************************************************************************)
RECURSIVE Filled(_, _)
Filled(k, n) == IF n = 0 THEN k ELSE Filled(env_alloc(k, 0).k, n - 1)

InitFull ==
    /\ envs = Filled(FreshKernel, NENV).envs
    /\ env_free_list = Filled(FreshKernel, NENV).env_free_list
    /\ curenv = NULL
    /\ mem = <<>>
    /\ cpu = NoCpu
    /\ fatal = "none"
    /\ last = NoOp
    /\ retired = {}
    /\ allocs = 0
    /\ image = GoodImage
    /\ debuginfo = KernelSymbols

SpecFull == InitFull /\ [][NextAged]_vars

(***************************************************************************)
(* Environments that yield in a loop (umain in prog/test2.c): the kernel   *)
(* creates them and starts the first one, they look handles up, and every  *)
(* sys_yield takes the processor to the environment the scheduler picks.   *)
(* The scheduler is fair: an environment that stays runnable is picked at  *)
(* some time.  This is weak fairness of YieldTo(pick), written out as      *)
(* "YieldTo(pick) is disabled again and again, or taken again and again",  *)
(* with the enabling condition of the step as the predicate CanYieldTo.    *)
(***************************************************************************)
YieldTo(pick) == pick \in BoundedPicks(KState) /\ CsysYield(UserTf, pick)

\* ENABLED <<YieldTo(pick)>>_vars: an environment is running and the
\* scheduler may pick `pick` (a step of env_run changes env_runs)
CanYieldTo(pick) ==
    /\ fatal = "none"
    /\ curenv # NULL
    /\ envs[curenv].env_status = "RUNNING"
    /\ pick \in BoundedPicks(KState)

NextFair ==
    \/ \E parent_id \in ParentIds : EnvAlloc(parent_id, TRUE)
    \/ \E env \in Slots :
          curenv = NULL /\ envs[env].env_status = "RUNNABLE" /\ EnvRun(env)
    \/ \E pick \in Slots : YieldTo(pick)
    \/ \E envid \in CalledHandles, need_check_perm \in BOOLEAN :
          Envid2Env(envid, need_check_perm, 0)

FairScheduler ==
    \A pick \in Slots :
        []<>~CanYieldTo(pick) \/ []<><<YieldTo(pick)>>_vars

SpecFair == Init /\ [][NextFair]_vars /\ FairScheduler

(***************************************************************************)
(* Kernel initialization: env_create for each of the programs built into   *)
(* the kernel, then the first environment is started and the environments  *)
(* yield to each other.  The images are an image like prog/test2.c, images *)
(* load_icode rejects and images bind_functions rejects.                   *)
(***************************************************************************)
\* images bind_functions fails on: the section e_shstrndx names is no
\* string table, there is no .bss, there is no .strtab; and an image
\* without a symbol table (nothing to bind)
BindFault(img, i) ==
    CASE i = 1 -> [img EXCEPT !.sh[2].sh_type = 1]
      [] i = 2 -> [img EXCEPT !.sh[4].sh_name = ".sbss"]
      [] i = 3 -> [img EXCEPT !.sh[7].sh_name = ".dynstr"]
      [] OTHER -> [img EXCEPT !.sh[6].sh_type = 11]

Test2Image ==
    BindImage(<<Symbol("great_function", STB_GLOBAL, STT_OBJECT, 12288, 8),
                Symbol("sys_yield", STB_GLOBAL, STT_OBJECT, 16392, 8),
                Symbol("cprintf", STB_GLOBAL, STT_OBJECT, 16400, 8),
                Symbol("GRADE3_FAIL", STB_GLOBAL, STT_OBJECT, 16408, 8)>>)

CreateImages ==
    {Test2Image, BindImage(<<>>)}
        \cup {BindFault(Test2Image, i) : i \in 1 .. 4}
        \cup {Fault(Test2Image, i) : i \in {4, 5, 17}}

NextCreate ==
    \/ \E img \in CreateImages, junk \in {0, 255} :
          curenv = NULL /\ EnvCreate(img, junk)
    \/ \E env \in Slots :
          curenv = NULL /\ envs[env].env_status = "RUNNABLE" /\ EnvRun(env)
    \/ \E pick \in Slots : YieldTo(pick)

SpecCreate == Init /\ [][NextCreate]_vars

(***************************************************************************)
(* bind_functions on images that lack what it looks for: the images above  *)
(* with any of the section name table, .bss, .strtab and the symbol table  *)
(* taken away (BindFault).                                                 *)
(***************************************************************************)
BindFaults == 1 .. 4

Lacking(img, faults) ==
    LET a == IF 1 \in faults THEN BindFault(img, 1) ELSE img
        b == IF 2 \in faults THEN BindFault(a, 2) ELSE a
        c == IF 3 \in faults THEN BindFault(b, 3) ELSE b
    IN IF 4 \in faults THEN BindFault(c, 4) ELSE c

InitBindFault ==
    /\ image \in {Lacking(img, faults) : img \in BindImages, faults \in SUBSET BindFaults}
    /\ debuginfo \in Resolvers
    /\ envs = Loaded(image).envs
    /\ env_free_list = Loaded(image).env_free_list
    /\ curenv = NULL
    /\ mem = Loaded(image).mem
    /\ cpu = NoCpu
    /\ fatal = "none"
    /\ last = Op("load_icode", "0", 0)
    /\ retired = {}
    /\ allocs = 1

SpecBindFault == InitBindFault /\ [][NextBind]_vars

(***************************************************************************)
(* The life of the environments the kernel creates from images: they are   *)
(* created, started, yield, exit (csys_exit) or are destroyed or freed by  *)
(* the kernel.                                                             *)
(***************************************************************************)
NextLife ==
    \/ \E img \in CreateImages, junk \in {0, 255} :
          curenv = NULL /\ EnvCreate(img, junk)
    \/ \E env \in Slots :
          curenv = NULL /\ envs[env].env_status = "RUNNABLE" /\ EnvRun(env)
    \/ \E pick \in Slots : YieldTo(pick)
    \/ \E env \in Slots : EnvFree(env)
    \/ \E env \in Slots :
          \E pick \in BoundedPicks(env_free(KState, env)) : EnvDestroy(env, pick)
    \/ /\ curenv # NULL
       /\ \E pick \in BoundedPicks(env_free(KState, curenv)) : CsysExit(pick)
    \/ \E envid \in CalledHandles, need_check_perm \in BOOLEAN :
          Envid2Env(envid, need_check_perm, 0)

SpecLife == Init /\ [][NextLife]_vars

(***************************************************************************)
(* Properties.                                                             *)
(***************************************************************************)
\* the kernel state after the step
KStateNext == [envs |-> envs', env_free_list |-> env_free_list',
               curenv |-> curenv', mem |-> mem', cpu |-> cpu', fatal |-> fatal']

\* the generation component of an identity
GenerationOf(envid) == ClearIndexBits(envid)

Live == {e \in Slots : envs[e].env_status # "FREE"}

\* no environment has been freed since env_init
NoFreeYet == Cardinality(Live) = allocs

\* C1: after env_init, as long as nothing has been freed, every env_alloc of
\* the first NENV succeeds and returns the slots 0, 1, ..., NENV - 1 in that
\* order, each with an identity whose generation component is not zero.
C1_AllocatesInTableOrder ==
    [][(NoFreeYet /\ allocs < NENV /\ last'.op = "env_alloc")
        => /\ last'.ret = "0"
           /\ last'.env = allocs
           /\ envs'[allocs].env_status # "FREE"
           /\ ENVX(envs'[allocs].env_id) = allocs
           /\ GenerationOf(envs'[allocs].env_id) # 0]_vars

C1_Witness ==
    /\ allocs = NENV /\ NoFreeYet
    /\ last.op = "env_alloc" /\ last.ret = "0" /\ last.env = NENV - 1

\* C2: when env_alloc hands out a slot s again that held the identity H
\* before it was freed, the new identity has the slot index s and a
\* generation component that is not zero and differs from the one of H, and
\* envid2env(H) fails with -E_BAD_ENV.
C2_ReallocationChangesIdentity ==
    [][\A s \in Slots :
        (last'.op = "env_alloc" /\ last'.ret = "0" /\ last'.env = s
            /\ envs[s].env_id # 0)
        => /\ ENVX(envs'[s].env_id) = s
           /\ GenerationOf(envs'[s].env_id) # 0
           /\ GenerationOf(envs'[s].env_id) # GenerationOf(envs[s].env_id)
           /\ \A perm \in BOOLEAN :
                 envid2env(KStateNext, envs[s].env_id, perm, 0)
                    = [ret |-> "-E_BAD_ENV", env_store |-> NULL]]_vars

C2_Witness ==
    /\ last.op = "env_alloc" /\ last.ret = "0"
    /\ \E h \in retired : ENVX(h) = last.env /\ h # 2 ^ ENVGENSHIFT + last.env

Wrapped(s) == LastGeneration + s \in retired

C4_LookupValidatesHandle ==
    \A h \in Handles \ {0} :
        LET r == envid2env(KState, h, FALSE, 0)
            valid == /\ envs[ENVX(h)].env_status # "FREE"
                     /\ envs[ENVX(h)].env_id = h
        IN IF valid
           THEN r = [ret |-> "0", env_store |-> ENVX(h)]
           ELSE r = [ret |-> "-E_BAD_ENV", env_store |-> NULL]

C4_Witness ==
    /\ last.op = "envid2env" /\ ~last.perm /\ last.envid # 0
    /\ last.ret = "-E_BAD_ENV" /\ last.env = NULL
    /\ envs[ENVX(last.envid)].env_status = "FREE"
    /\ envs[ENVX(last.envid)].env_id = last.envid

\* C5: env_alloc on an empty free list returns -E_NO_FREE_ENV and changes
\* nothing: no field of any slot, not the free list, not curenv.
C5_FailedAllocChangesNothing ==
    [][(last'.op = "env_alloc" /\ env_free_list = NULL)
        => /\ last'.ret = "-E_NO_FREE_ENV"
           /\ last'.env = NULL
           /\ UNCHANGED <<envs, env_free_list, curenv, mem, cpu, fatal>>]_vars

C5_Witness ==
    /\ last.op = "env_alloc" /\ last.ret = "-E_NO_FREE_ENV"
    /\ env_free_list = NULL /\ Live = Slots

\* C6: envid2env(0), with or without the permission check, succeeds and
\* stores curenv, whatever the table holds.
C6_LookupZeroIsCurenv ==
    \A perm \in BOOLEAN : \A nullid \in NullReads :
        envid2env(KState, 0, perm, nullid) = [ret |-> "0", env_store |-> curenv]

C6_Witness ==
    /\ last.op = "envid2env" /\ last.envid = 0 /\ last.ret = "0"
    /\ curenv # NULL /\ last.env = curenv
    /\ envs[0].env_status = "FREE"

\* C7: with a current environment, for a handle other than 0 that names a
\* live environment E, envid2env with the permission check succeeds exactly
\* if E is curenv or the parent of E is the identity of curenv; otherwise it
\* returns -E_BAD_ENV and stores NULL.
C7_PermissionCheck ==
    curenv # NULL =>
        \A h \in Handles \ {0} :
            (envs[ENVX(h)].env_status # "FREE" /\ envs[ENVX(h)].env_id = h)
            => LET r == envid2env(KState, h, TRUE, 0)
                   allowed == \/ ENVX(h) = curenv
                              \/ envs[ENVX(h)].env_parent_id = envs[curenv].env_id
               IN IF allowed
                  THEN r = [ret |-> "0", env_store |-> ENVX(h)]
                  ELSE r = [ret |-> "-E_BAD_ENV", env_store |-> NULL]

C7_Witness ==
    /\ last.op = "envid2env" /\ last.perm /\ last.envid # 0
    /\ last.ret = "0" /\ last.env # NULL /\ last.env # curenv
    /\ curenv # NULL
    /\ envs[last.env].env_parent_id = envs[curenv].env_id

\* C8: at most one environment is RUNNING, and it is curenv.
C8_OneRunning ==
    /\ Cardinality({e \in Slots : envs[e].env_status = "RUNNING"}) <= 1
    /\ \A e \in Slots : envs[e].env_status = "RUNNING" => e = curenv

C8_Witness ==
    /\ curenv # NULL /\ envs[curenv].env_status = "RUNNING"
    /\ \E e \in Slots \ {curenv} :
          envs[e].env_status = "RUNNABLE" /\ envs[e].env_runs > 0

\* C9: env_run of a RUNNABLE environment makes it RUNNING and curenv, adds
\* exactly 1 to its env_runs, and makes the environment that was RUNNING
\* before RUNNABLE.
C9_RunSwitches ==
    [][\A e \in Slots :
        (last'.op = "env_run" /\ last'.env = e
            /\ envs[e].env_status = "RUNNABLE")
        => /\ fatal' = "none"
           /\ envs'[e].env_status = "RUNNING"
           /\ curenv' = e
           /\ envs'[e].env_runs = envs[e].env_runs + 1
           /\ \A o \in Slots \ {e} :
                 envs[o].env_status = "RUNNING"
                    => envs'[o].env_status = "RUNNABLE"]_vars

C9_Witness ==
    /\ last.op = "env_run" /\ curenv = last.env
    /\ envs[curenv].env_status = "RUNNING" /\ envs[curenv].env_runs = 1
    /\ \E o \in Slots \ {curenv} :
          envs[o].env_status = "RUNNABLE" /\ envs[o].env_runs = 1

\* the image fails one of the checks load_icode makes of the header
FailsHeaderCheck(img) == ~HeaderOk(img) \/ img.e_entry = U64(0)

\* C10: load_icode rejects an image that fails a check of the header (too
\* short, bad magic, wrong class, header tables outside the buffer, entry
\* point zero) with -E_INVALID_EXE before it has copied anything: memory is
\* as it was.
C10_RejectedBeforeAnyCopy ==
    [][(last'.op = "load_icode" /\ FailsHeaderCheck(image))
        => last'.ret = "-E_INVALID_EXE" /\ mem' = mem]_vars


(***************************************************************************)
(* The binder.                                                             *)
(***************************************************************************)
\* the .bss range of the image
BssStart(img) == img.sh[FindSection(img, 1, ".bss")].sh_addr

BssPastEnd(img) == U64Add(BssStart(img), img.sh[FindSection(img, 1, ".bss")].sh_size)

\* the symbol is global, of object type, and its address is in .bss
GlobalObjectInBss(img, sym) ==
    /\ sym.st_info = 16 * STB_GLOBAL + STT_OBJECT
    /\ U64Le(BssStart(img), sym.st_value)
    /\ U64Lt(sym.st_value, BssPastEnd(img))

\* the addresses of the storage of the symbol
StorageOf(sym) == {Cell(U64Add(sym.st_value, U64(i))) : i \in 0 .. (sym.st_size - 1)}

\* the storage of the symbol holds the value (its low bytes, for a symbol
\* shorter than a pointer)
Holds(m, sym, value) ==
    \A i \in 0 .. (sym.st_size - 1) :
        LET c == Cell(U64Add(sym.st_value, U64(i)))
        IN c \in DOMAIN m /\ m[c] = ByteOf(value, i)

\* what the symbol is to be bound to: the kernel's entry point of that
\* name, else what the resolver finds, else 0
RoutineOf(symbol_name) ==
    CASE symbol_name = "sys_yield" -> ASM_EXPORTED_FUNCTIONS[1].kernel_code_address
      [] symbol_name = "sys_exit" -> ASM_EXPORTED_FUNCTIONS[2].kernel_code_address
      [] OTHER -> IF symbol_name \in DOMAIN debuginfo
                  THEN debuginfo[symbol_name] ELSE U64(0)

\* C11: after bind_functions on a well-formed image, the storage of every
\* global object symbol in .bss holds the address of the kernel routine of
\* its name (an exported entry point, or what find_function finds), or zero
\* if there is none, and bind_functions returns 0.
C11_CandidatesHoldTheirRoutine ==
    [][last'.op = "bind_functions"
        => /\ last'.ret = "0"
           /\ \A i \in 1 .. Len(image.syms) :
                 GlobalObjectInBss(image, image.syms[i])
                    => Holds(mem', image.syms[i], RoutineOf(image.syms[i].st_name))]_vars

\* C12: bind_functions leaves the storage of every symbol alone that is not
\* global, or not an object, or not in .bss.
C12_OtherSymbolsKeepTheirValue ==
    [][last'.op = "bind_functions"
        => \A i \in 1 .. Len(image.syms) :
              ~GlobalObjectInBss(image, image.syms[i])
                 => \A c \in StorageOf(image.syms[i]) :
                       /\ c \in DOMAIN mem' <=> c \in DOMAIN mem
                       /\ c \in DOMAIN mem => mem'[c] = mem[c]]_vars


\* C13: env_free puts the slot at the head of the free list, and the next
\* env_alloc hands out the slot freed most recently: after the table was
\* filled (NENV allocations), the slot comes back with an identity that
\* differs from the one it held, and the identity it held fails envid2env.
C13_FreeListIsLIFO ==
    [][/\ last'.op = "env_free" => env_free_list' = last'.env
       /\ (last'.op = "env_alloc" /\ last'.ret # "trap")
            => /\ last'.env = env_free_list
               /\ last.op = "env_free" => last'.env = last.env
               /\ (last'.ret = "0" /\ envs[last'.env].env_id # 0)
                    => /\ envs'[last'.env].env_id # envs[last'.env].env_id
                       /\ \A perm \in BOOLEAN :
                             envid2env(KStateNext, envs[last'.env].env_id,
                                       perm, 0).ret = "-E_BAD_ENV"]_vars

\* the table was full, slot NENV - 1 was freed and has been handed out again
C13_Witness ==
    /\ last.op = "env_alloc" /\ last.ret = "0" /\ last.env = NENV - 1
    /\ Live = Slots
    /\ envs[NENV - 1].env_id = 2 * 2 ^ ENVGENSHIFT + NENV - 1
    /\ retired = {2 ^ ENVGENSHIFT + NENV - 1}

\* the slots met on the way from e along env_link, at most n of them
RECURSIVE FreeWalk(_, _)
FreeWalk(e, n) ==
    IF e = NULL \/ n = 0 THEN <<>>
    ELSE <<e>> \o FreeWalk(envs[e].env_link, n - 1)

\* C14: the walk from env_free_list along env_link ends at NULL after at
\* most NENV slots, meets no slot twice, and meets exactly the slots whose
\* status is ENV_FREE.
C14_FreeListIsTheFreeSlots ==
    LET walk == FreeWalk(env_free_list, NENV + 1)
    IN /\ Len(walk) <= NENV
       /\ \A i, j \in 1 .. Len(walk) : walk[i] = walk[j] => i = j
       /\ {walk[i] : i \in 1 .. Len(walk)} = Slots \ Live

\* every slot has been handed out and freed, the last slot last: the list
\* runs against the table order
C14_Witness ==
    /\ last.op = "env_free"
    /\ Live = {}
    /\ FreeWalk(env_free_list, NENV + 1) = [i \in 1 .. NENV |-> NENV - i]

\* C15: every identity env_alloc produces is greater than zero, and so is
\* its generation component: it is the generation the slot held plus
\* 1 << ENVGENSHIFT, or 1 << ENVGENSHIFT when that sum is past INT32_MAX
\* (the 32-bit sum is not positive).
C15_GenerationStaysPositive ==
    [][(last'.op = "env_alloc" /\ last'.ret = "0")
        => LET old == envs[last'.env].env_id
               new == envs'[last'.env].env_id
           IN /\ new > 0
              /\ GenerationOf(new) > 0
              /\ GenerationOf(new) =
                    IF GenerationOf(old) <= LastGeneration - 2 ^ ENVGENSHIFT
                    THEN GenerationOf(old) + 2 ^ ENVGENSHIFT
                    ELSE 2 ^ ENVGENSHIFT]_vars

\* a slot that held its last generation has been handed out again, with
\* the first generation
C15_Witness ==
    /\ last.op = "env_alloc" /\ last.ret = "0"
    /\ LastGeneration + last.env \in retired
    /\ envs[last.env].env_id = 2 ^ ENVGENSHIFT + last.env

\* the step ended in env_pop_tf for env: env is the current environment, is
\* RUNNING, has one run more, and the processor holds the registers of its
\* record (with the two words env_pop_tf pushed taken off the stack again)
HandedOffTo(env) ==
    /\ curenv' = env
    /\ envs'[env].env_status = "RUNNING"
    /\ envs'[env].env_runs = envs[env].env_runs + 1
    /\ cpu' = [envs'[env].env_tf EXCEPT !.tf_rsp = U64Add(@, U64(16))]

C17_RunNeverReturns ==
    [][last'.op = "env_run"
        => (fatal' # "none" \/ HandedOffTo(last'.env))]_vars

\* env_run has switched from one environment to another
C17_Witness ==
    /\ last.op = "env_run" /\ fatal = "none" /\ curenv = last.env
    /\ \E e \in Slots \ {curenv} :
          envs[e].env_status = "RUNNABLE" /\ envs[e].env_runs > 0

\* the registers of env at its n-th sys_yield: those it was started with,
\* as changed by the code it has run since
SavedTf(env, n) ==
    [InitialTf(env) EXCEPT !.tf_regs = 1, !.tf_rip = U64(2 * n)]

\* env has yielded for the n-th time and waits, RUNNABLE, with the
\* registers of the call in its record
YieldedWith(env, n) ==
    /\ curenv # env
    /\ envs[env].env_status = "RUNNABLE"
    /\ envs[env].env_runs > 0
    /\ envs[env].env_tf = SavedTf(env, n)

\* env runs again, with the registers of its n-th sys_yield
ResumedWith(env, n) ==
    /\ curenv = env
    /\ envs[env].env_status = "RUNNING"
    /\ cpu = SavedTf(env, n)

\* C18: csys_yield saves the registers of the call in the record of the
\* running environment; when another environment is run the caller becomes
\* ENV_RUNNABLE with that record, and the environment that is run gets the
\* registers of its own record; with a fair scheduler an environment that
\* has yielded runs again with exactly the registers it saved (as long as
\* the run budget MaxRuns of the model lasts).
C18_YieldResumesWhereItLeft ==
    /\ [][(last'.op = "csys_yield" /\ fatal' = "none")
            => /\ curenv' # curenv
                    => /\ envs'[curenv].env_tf = UserTf
                       /\ envs'[curenv].env_status = "RUNNABLE"
                       /\ cpu' = envs[curenv'].env_tf
               /\ curenv' = curenv => cpu' = UserTf]_vars
    /\ \A env \in Slots : \A n \in 1 .. MaxRuns :
          YieldedWith(env, n) ~> (ResumedWith(env, n) \/ ~RunsLeft(KState))

\* an environment that yielded to another one runs again where it left
C18_Witness ==
    /\ last.op = "csys_yield" /\ last.env # curenv
    /\ envs[curenv].env_runs = 2
    /\ ResumedWith(curenv, 1)

\* C19: env_create calls env_alloc with parent 0, then load_icode on the
\* environment it got, then bind_functions on the loaded image; it goes on
\* exactly if all three succeed, and the kernel is stopped at the first one
\* that fails (after env_alloc alone nothing is loaded, after load_icode
\* nothing is bound).  Nothing runs after a stop.
C19_CreateStopsOnFailure ==
    [][/\ fatal = "none"
       /\ last'.op = "env_create"
            => LET a == env_alloc(KState, 0)
                   l(junk) == load_icode(a.k, a.newenv, image', junk)
                   b(junk) == bind_functions(l(junk).k, a.newenv, image', debuginfo)
               IN \E junk \in {0, 255} :
                    /\ fatal' = "none"
                         <=> (a.ret = "0" /\ l(junk).ret = "0" /\ b(junk).ret = "0")
                    /\ fatal' # "none" => fatal' = "panic"
                    /\ a.ret # "0"
                         => last'.ret = "env_alloc" /\ KStateNext = Panic(KState)
                    /\ (a.ret = "0" /\ l(junk).ret # "0")
                         => last'.ret = "load_icode" /\ KStateNext = Panic(l(junk).k)
                    /\ (a.ret = "0" /\ l(junk).ret = "0")
                         => /\ envs'[last'.env].env_parent_id = 0
                            /\ KStateNext = IF b(junk).ret = "0" THEN b(junk).k
                                            ELSE Panic(b(junk).k)
                            /\ last'.ret = IF b(junk).ret = "0" THEN "done"
                                           ELSE "bind_functions"]_vars

\* env_create has stopped the kernel because bind_functions failed on an
\* image load_icode accepted
C19_Witness ==
    /\ last.op = "env_create" /\ last.ret = "bind_functions"
    /\ fatal = "panic"
    /\ envs[last.env].env_status = "RUNNABLE"
    /\ envs[last.env].binary = image.buf

\* C20: the status of every environment is ENV_FREE, ENV_RUNNABLE or
\* ENV_RUNNING, never ENV_DYING or ENV_NOT_RUNNABLE: env_run never finds a
\* dying curenv, the case it panics on as not implemented.
C20_ThreeStatuses ==
    /\ \A e \in Slots : envs[e].env_status \in {"FREE", "RUNNABLE", "RUNNING"}
    /\ curenv # NULL => envs[curenv].env_status # "DYING"

\* an environment was destroyed while another one was running, and that
\* one has been run again
C20_Witness ==
    /\ last.op = "env_destroy" /\ fatal = "none"
    /\ envs[last.env].env_status = "FREE"
    /\ \E e \in Slots : envs[e].env_status = "RUNNING" /\ envs[e].env_runs > 1

(***************************************************************************)
(* What load_icode leaves in the environment.                              *)
(***************************************************************************)
\* C21 as stated: after load_icode the saved instruction pointer equals the
\* entry point of the image exactly when load_icode returned 0, and a
\* rejected load leaves the saved instruction pointer as it was.
C21_EntrySetIffSuccess ==
    [][last'.op = "load_icode"
        => /\ (envs'[last'.env].env_tf.tf_rip = image.e_entry) <=> (last'.ret = "0")
           /\ last'.ret = "-E_INVALID_EXE"
                => envs'[last'.env].env_tf.tf_rip = envs[last'.env].env_tf.tf_rip]_vars

\* C21: a load that returns 0 leaves the (non-zero) entry point of the
\* image in the saved instruction pointer; a load that returns
\* -E_INVALID_EXE leaves the saved trap frame as it was, so that the saved
\* instruction pointer then equals the entry point only if it already did
\* (an image whose entry point is 0, on a fresh record).
C21_EntrySetOnSuccessOnly ==
    [][last'.op = "load_icode"
        => /\ last'.ret \in {"0", "-E_INVALID_EXE"}
           /\ last'.ret = "0"
                => /\ envs'[last'.env].env_tf.tf_rip = image.e_entry
                   /\ image.e_entry # U64(0)
           /\ last'.ret = "-E_INVALID_EXE"
                => /\ envs'[last'.env].env_tf = envs[last'.env].env_tf
                   /\ (envs'[last'.env].env_tf.tf_rip = image.e_entry
                         => image.e_entry = envs[last'.env].env_tf.tf_rip)]_vars

\* a load rejected in the loop over the sections, after the segments were
\* copied, of an image whose entry point is not zero
C21_Witness ==
    /\ last.op = "load_icode" /\ last.ret = "-E_INVALID_EXE"
    /\ HeaderOk(image) /\ image.e_entry # U64(0)
    /\ mem # <<>>
    /\ envs[last.env].env_tf.tf_rip = U64(0)

\* C22: load_icode records the buffer of the image in the environment only
\* when every check has passed: a load that returns -E_INVALID_EXE (one of
\* an image whose entry point is 0 included) leaves env->binary as it was.
C22_ImageRefOnlyOnSuccess ==
    [][(last'.op = "load_icode" /\ last'.ret = "-E_INVALID_EXE")
        => envs'[last'.env].binary = envs[last'.env].binary]_vars

\* C23: every byte load_icode reads for a segment or a section it copies
\* lies inside the buffer [0, size), whatever 64-bit offset and size the
\* headers give, those whose sum wraps around included.
C23_EveryByteReadInsideBuffer ==
    [][last'.op = "load_icode"
        => \A junk \in {0, 255} :
              ~load_icode(KState, last'.env, image, junk).oob]_vars

\* the n bytes from offset off on all lie in the buffer: off <= size and
\* n <= size - off, which no wraparound can satisfy
LiesInside(img, off, n) ==
    /\ U64Le(off, img.size)
    /\ U64Le(U64(n), U64Sub(img.size, off))

CopiesOf(img) ==
    {[dst |-> img.ph[i].p_pa, off |-> img.ph[i].p_offset, n |-> img.ph[i].p_filesz] :
        i \in {j \in 1 .. img.e_phnum :
                  img.ph[j].p_type = PT_LOAD /\ img.ph[j].p_filesz # U64(0)}}
    \cup
    {[dst |-> img.sh[i].sh_addr, off |-> img.sh[i].sh_offset, n |-> img.sh[i].sh_size] :
        i \in {j \in 1 .. img.e_shnum :
                  img.sh[j].sh_type # ELF_SHT_NOBITS /\ img.sh[j].sh_addr # U64(0)}}

\* the bytes of memory a copy writes
CellsOf(copy) == {Cell(U64Add(copy.dst, U64(i))) : i \in 0 .. (copy.n[4] - 1)}

\* the bytes of memory after the file bytes of the segments, up to p_memsz
RemainderOf(img) ==
    UNION {{Cell(U64Add(img.ph[i].p_pa, U64(b))) :
               b \in img.ph[i].p_filesz[4] .. (img.ph[i].p_memsz[4] - 1)} :
           i \in {j \in 1 .. img.e_phnum : img.ph[j].p_type = PT_LOAD}}

C26_AllocatedRecordIsFresh ==
    [][(last'.op = "env_alloc" /\ last'.ret = "0")
        => LET env == envs'[last'.env]
           IN /\ env.env_status = "RUNNABLE"
              /\ env.env_runs = 0
              /\ env.env_parent_id = last'.envid
              /\ env.env_tf.tf_regs = 0
              /\ env.env_tf.tf_rip = U64(0)
              /\ env.env_tf.tf_rflags = U64(0)
              /\ env.env_tf.tf_rsp
                    = U64Sub(U64(STACK_AREA_TOP), U64(2 * PAGE_SIZE * last'.env))]_vars

\* a slot is handed out again whose earlier environment had run and had
\* yielded with registers, instruction pointer and flags that were not zero
\* and had another parent
C26_Witness ==
    /\ last.op = "env_alloc" /\ last.ret = "0"
    /\ 2 ^ ENVGENSHIFT + last.env \in retired
    /\ UsedTable(Slots)[last.env].env_runs # envs[last.env].env_runs
    /\ UsedTable(Slots)[last.env].env_tf.tf_regs # envs[last.env].env_tf.tf_regs
    /\ UsedTable(Slots)[last.env].env_parent_id # envs[last.env].env_parent_id
    /\ envs[last.env].env_status = "RUNNABLE"

\* the two pages of stack below a stack pointer: [sp - 2 * PAGE_SIZE, sp)
StackBottom(sp) == sp - 2 * PAGE_SIZE

StacksApart(sp, other) == sp <= StackBottom(other) \/ other <= StackBottom(sp)

\* the stacks of the slots of a table of KernelNENV records: each lies
\* above address 0 and below the stack of the slot before it
KernelStacksApart ==
    \A i \in 0 .. (KernelNENV - 1) :
       /\ StackBottom(Cell(InitialTf(i).tf_rsp)) > 0
       /\ i > 0 => StacksApart(Cell(InitialTf(i).tf_rsp),
                               Cell(InitialTf(i - 1).tf_rsp))
       /\ i > 0 => Cell(InitialTf(i).tf_rsp) < Cell(InitialTf(i - 1).tf_rsp)

\* C27: the stack pointer env_alloc gives the record of slot i is
\* STACK_AREA_TOP - 2 * PAGE_SIZE * i: the two pages of stack below the
\* stack pointers of two allocated slots are disjoint and lie above address
\* 0, for the slots of the table and, by the same arithmetic, for every
\* slot index below the NENV of the kernel build.
C27_StacksDisjointAboveZero ==
    /\ \A i \in Slots :
          envs[i].env_status # "FREE"
            => /\ envs[i].env_tf.tf_rsp = U64(STACK_AREA_TOP - 2 * PAGE_SIZE * i)
               /\ StackBottom(Cell(envs[i].env_tf.tf_rsp)) > 0
               /\ \A j \in Slots \ {i} :
                     envs[j].env_status # "FREE"
                       => StacksApart(Cell(envs[i].env_tf.tf_rsp),
                                      Cell(envs[j].env_tf.tf_rsp))
    /\ KernelStacksApart

\* every slot of the table is allocated, the last one again after a release
C27_Witness ==
    /\ last.op = "env_alloc" /\ last.ret = "0"
    /\ \A i \in Slots : envs[i].env_status = "RUNNABLE"
    /\ NENV >= 2
    /\ retired # {}

(***************************************************************************)
(* The table.                                                              *)
(***************************************************************************)
\* C28: in every reachable state the identities of the environments that
\* are not ENV_FREE are pairwise distinct and not zero, and the index part
\* of each is the index of the slot that holds it.
C28_LiveIdentitiesDistinct ==
    \A i \in Slots :
       envs[i].env_status # "FREE"
         => /\ envs[i].env_id # 0
            /\ ENVX(envs[i].env_id) = i
            /\ \A j \in Slots \ {i} :
                  envs[j].env_status # "FREE" => envs[j].env_id # envs[i].env_id

\* two environments are live, one of them in a slot whose generation
\* counter has wrapped around
C28_Witness ==
    /\ \E i, j \in Slots :
          /\ i # j
          /\ envs[i].env_status # "FREE" /\ envs[j].env_status # "FREE"
          /\ envs[i].env_id = 2 ^ ENVGENSHIFT + i
          /\ envs[i].env_id \in retired
    /\ last.op = "env_alloc" /\ last.ret = "0"

\* the walk visits the slots in ascending order of their index
Ascending(walk) == \A i, j \in 1 .. Len(walk) : i < j => walk[i] < walk[j]

\* C29 as stated: in every reachable state, after frees and reallocations
\* too, the walk of the free list visits the free slots in table order.
C29_FreeListInTableOrder == Ascending(FreeWalk(env_free_list, NENV + 1))

\* C29: the free list is in table order as long as nothing has been freed
\* since env_init; a release (env_free, env_destroy, csys_exit) puts the
\* released slot in front of the list as it was and env_alloc takes the
\* first slot off, so that after releases the list is in the reverse order
\* of the releases.
C29_FreeListOrderIsLIFO ==
    /\ [](NoFreeYet => Ascending(FreeWalk(env_free_list, NENV + 1)))
    /\ [][/\ last'.op \in {"env_free", "env_destroy", "csys_exit"}
               => FreeWalk(env_free_list, NENV + 1)'
                     = <<last'.env>> \o FreeWalk(env_free_list, NENV + 1)
          /\ (last'.op = "env_alloc" /\ last'.ret = "0")
               => /\ FreeWalk(env_free_list, NENV + 1)
                       = <<last'.env>> \o FreeWalk(env_free_list, NENV + 1)'
                  /\ Ascending(FreeWalk(env_free_list, NENV + 1))
                       => Ascending(FreeWalk(env_free_list, NENV + 1)')]_vars

\* slots have been released in table order: the list runs against it
C29_Witness ==
    /\ last.op = "env_free"
    /\ Len(FreeWalk(env_free_list, NENV + 1)) >= 2
    /\ FreeWalk(env_free_list, NENV + 1)[1] = last.env
    /\ ~Ascending(FreeWalk(env_free_list, NENV + 1))

\* C30: after env_free, env_destroy or csys_exit of an environment its
\* record is ENV_FREE, is on the free list, and its reference to the image
\* it was loaded from is cleared (env->binary is NULL).
C30_DestroyedRecordIsCleared ==
    [][last'.op \in {"env_free", "env_destroy", "csys_exit"}
        => /\ envs'[last'.env].env_status = "FREE"
           /\ \E i \in 1 .. Len(FreeWalk(env_free_list, NENV + 1)') :
                 FreeWalk(env_free_list, NENV + 1)'[i] = last'.env
           /\ envs'[last'.env].binary = NoBinary]_vars

(***************************************************************************)
(* env_run and the environment it takes the processor from.                *)
(***************************************************************************)
\* the steps in which env_run is entered
RunOps == {"env_run", "env_destroy", "csys_exit", "csys_yield"}

\* C31: when env_run is entered while the current environment is ENV_FREE
\* (env_destroy or csys_exit has just freed it), that environment is not
\* made runnable: it stays ENV_FREE and on the free list.  Only an
\* environment env_run finds ENV_RUNNING as the current one is demoted to
\* ENV_RUNNABLE.
C31_FreedCurrentIsNotDemoted ==
    [][last'.op \in RunOps
        => /\ (last'.op \in {"env_destroy", "csys_exit"} /\ last'.env = curenv)
                => /\ envs'[curenv].env_status = "FREE"
                   /\ \E i \in 1 .. Len(FreeWalk(env_free_list, NENV + 1)') :
                         FreeWalk(env_free_list, NENV + 1)'[i] = curenv
           /\ \A e \in Slots :
                 (envs'[e].env_status = "RUNNABLE" /\ envs[e].env_status # "RUNNABLE")
                    => (e = curenv /\ envs[e].env_status = "RUNNING")]_vars

\* the running environment has exited and the scheduler has run another
C31_Witness ==
    /\ last.op = "csys_exit" /\ fatal = "none"
    /\ curenv # NULL /\ curenv # last.env
    /\ envs[curenv].env_status = "RUNNING"
    /\ envs[last.env].env_status = "FREE"
    /\ env_free_list = last.env

NoSectionNames(img) == img.sh[img.e_shstrndx + 1].sh_type # ELF_SHT_STRTAB

NoBss(img) == \A i \in 1 .. img.e_shnum : img.sh[i].sh_name # ".bss"

NoStrtab(img) ==
    \A i \in 1 .. img.e_shnum :
       ~(img.sh[i].sh_type = ELF_SHT_STRTAB /\ img.sh[i].sh_name = ".strtab")

NoSymtab(img) == \A i \in 1 .. img.e_shnum : img.sh[i].sh_type # ELF_SHT_SYMTAB

\* C33: bind_functions returns a negative code and leaves memory as it was
\* when the section e_shstrndx selects is not a string table, when no
\* section is named .bss, or when there is no string table section named
\* .strtab.
C33_BindFailsWithoutPatching ==
    [][(last'.op = "bind_functions"
          /\ (NoSectionNames(image) \/ NoBss(image) \/ NoStrtab(image)))
        => /\ last'.ret \in {"-1", "-2", "-3"}
           /\ mem' = mem
           /\ NoSectionNames(image) => last'.ret = "-1"]_vars

\* bind_functions has failed for want of .strtab on an image whose symbol
\* table holds a global object in .bss
C33_Witness ==
    /\ last.op = "bind_functions" /\ last.ret = "-3"
    /\ NoStrtab(image) /\ ~NoSymtab(image)
    /\ \E i \in 1 .. Len(image.syms) : GlobalObjectInBss(image, image.syms[i])

\* C34 as stated: for an image with section names and a .bss section but
\* no section of type ELF_SHT_SYMTAB, bind_functions returns 0 and leaves
\* memory as it was, whether or not the image has a .strtab section.
C34_NoSymtabBindsNothing ==
    [][(last'.op = "bind_functions"
          /\ ~NoSectionNames(image) /\ ~NoBss(image) /\ NoSymtab(image))
        => /\ last'.ret = "0"
           /\ mem' = mem]_vars

\* C34: for an image with section names, a .bss section and a string table
\* section named .strtab but no section of type ELF_SHT_SYMTAB,
\* bind_functions returns 0 and leaves memory as it was; without the
\* .strtab section it returns -3, and leaves memory as it was too.
C34_NoSymtabWithStrtabBindsNothing ==
    [][(last'.op = "bind_functions"
          /\ ~NoSectionNames(image) /\ ~NoBss(image) /\ NoSymtab(image))
        => /\ last'.ret = IF NoStrtab(image) THEN "-3" ELSE "0"
           /\ mem' = mem]_vars

\* bind_functions has returned 0 for an image without a symbol table
\* section, whose symbols (there for the taking, had the section its type)
\* include a global object in .bss
C34_Witness ==
    /\ last.op = "bind_functions" /\ last.ret = "0"
    /\ NoSymtab(image) /\ ~NoStrtab(image)
    /\ \E i \in 1 .. Len(image.syms) : GlobalObjectInBss(image, image.syms[i])

(***************************************************************************)
(* What the binder stores, and where.                                      *)
(***************************************************************************)
\* the names of ASM_EXPORTED_FUNCTIONS
FixedNames ==
    {ASM_EXPORTED_FUNCTIONS[f].user_space_fname : f \in 1 .. Len(ASM_EXPORTED_FUNCTIONS)}

\* the candidates of the image, in the order of the symbol table
CandidatesOf(img) ==
    SelectSeq(img.syms, LAMBDA sym : GlobalObjectInBss(img, sym))

\* the 8 bytes at the address of the symbol
WordAt(m, sym) ==
    [i \in 0 .. 7 |->
        LET c == Cell(U64Add(sym.st_value, U64(i)))
        IN IF c \in DOMAIN m THEN m[c] ELSE -1]

\* no store for another candidate reaches the 8 bytes of this one
StoredApart(img, sym) ==
    \A i \in 1 .. Len(img.syms) :
       (GlobalObjectInBss(img, img.syms[i]) /\ img.syms[i] # sym)
          => \/ Cell(img.syms[i].st_value) + 8 <= Cell(sym.st_value)
             \/ Cell(sym.st_value) + 8 <= Cell(img.syms[i].st_value)

\* C35: for a candidate whose name is one of ASM_EXPORTED_FUNCTIONS
\* (sys_yield, sys_exit) bind_functions stores the address of the table,
\* whatever find_function would return for the name; what find_function
\* returns is stored only for a candidate whose name is not in the table.
C35_FixedTableBeforeResolver ==
    [][(last'.op = "bind_functions" /\ last'.ret = "0")
        => LET stores == bind_functions(KState, last'.env, image, debuginfo).patched
               cands == CandidatesOf(image)
           IN /\ Len(stores) = Len(cands)
              /\ \A i \in 1 .. Len(cands) :
                    LET address ==
                          IF cands[i].st_name \in FixedNames
                          THEN RoutineOf(cands[i].st_name)
                          ELSE find_function(debuginfo, cands[i].st_name)
                    IN /\ stores[i].va = cands[i].st_value
                       /\ stores[i].address = address
                       /\ cands[i].st_name \in FixedNames => address # U64(0)
                       /\ StoredApart(image, cands[i])
                            => WordAt(mem', cands[i])
                                 = [b \in 0 .. 7 |-> ByteOf(address, b)]]_vars

\* sys_yield has been bound on a kernel whose debug information gives
\* another address for the name
C35_Witness ==
    /\ last.op = "bind_functions" /\ last.ret = "0"
    /\ "sys_yield" \in DOMAIN debuginfo
    /\ debuginfo["sys_yield"] # ASM_EXPORTED_FUNCTIONS[1].kernel_code_address
    /\ \E i \in 1 .. Len(image.syms) :
          /\ image.syms[i].st_name = "sys_yield"
          /\ GlobalObjectInBss(image, image.syms[i])
          /\ StoredApart(image, image.syms[i])
          /\ WordAt(mem, image.syms[i])
                = [b \in 0 .. 7 |->
                     ByteOf(ASM_EXPORTED_FUNCTIONS[1].kernel_code_address, b)]

\* the address lies in the .bss range [start, start + size) of the image
InBss(img, va) == U64Le(BssStart(img), va) /\ U64Lt(va, BssPastEnd(img))

\* C36: every byte bind_functions writes lies inside the .bss range of the
\* image: each of the 8 bytes of every store it makes does, also for a
\* symbol in the last 7 bytes of the range, and no byte of memory outside
\* the range changes.
C36_StoresStayInsideBss ==
    [][(last'.op = "bind_functions" /\ last'.ret = "0")
        => LET stores == bind_functions(KState, last'.env, image, debuginfo).patched
           IN /\ \A i \in 1 .. Len(stores), b \in 0 .. 7 :
                    InBss(image, U64Add(stores[i].va, U64(b)))
              /\ \A c \in DOMAIN mem' :
                    (c \notin DOMAIN mem \/ mem'[c] # mem[c])
                       => InBss(image, U64(c))]_vars


(***************************************************************************)
(* The scheduled kernel: environments are created at any time, the         *)
(* scheduler runs one it may pick (sched_yield called from the kernel),    *)
(* the running one yields or exits, and the kernel destroys any of them.   *)
(***************************************************************************)
NextSched ==
    \/ \E img \in CreateImages, junk \in {0, 255} : EnvCreate(img, junk)
    \/ \E pick \in Slots : pick \in BoundedPicks(KState) /\ EnvRun(pick)
    \/ \E pick \in Slots : YieldTo(pick)
    \/ \E env \in Slots :
          \E pick \in BoundedPicks(env_free(KState, env)) : EnvDestroy(env, pick)
    \/ /\ curenv # NULL
       /\ \E pick \in BoundedPicks(env_free(KState, curenv)) : CsysExit(pick)

SpecSched == Init /\ [][NextSched]_vars

\* the kernel state env_run is entered with in the step just taken:
\* env_destroy and csys_exit free the environment before they yield
RunEntry ==
    IF last'.op \in {"env_destroy", "csys_exit"}
    THEN env_free(KState, last'.env)
    ELSE KState

\* C37: in every run of the scheduled kernel (create, run of an environment
\* the scheduler picked, yield, exit, destroy) no assertion of env_run
\* fails: when env_run is entered the current environment, if there is
\* one, is RUNNING or FREE, and after the demotion the environment to run
\* is RUNNABLE
C37_RunAssertionsNeverFail ==
    [][last'.op \in RunOps
        => /\ fatal' # "panic"
           /\ fatal' = "none"
                => /\ RunEntry.curenv # NULL
                      => RunEntry.envs[RunEntry.curenv].env_status
                            \in {"RUNNING", "FREE"}
                   /\ Demote(RunEntry).envs[curenv'].env_status = "RUNNABLE"]_vars

\* an environment exited and env_run switched from the freed record to
\* another environment
C37_Witness ==
    /\ last.op \in {"csys_exit", "env_destroy"}
    /\ fatal = "none"
    /\ curenv # NULL
    /\ last.env # curenv
    /\ envs[last.env].env_status = "FREE"
    /\ envs[curenv].env_status = "RUNNING"

====
